---- MODULE Spec2Model ----
(***************************************************************************)
(* Forward-mode automatic differentiation with dual numbers                *)
(* (lcmonteiro/library-dual).  A dual::number<T, Dn...> is a scalar with   *)
(* one derivative slot per index of the pack Dn...; unary_operation and    *)
(* binary_operation propagate value and derivatives through a strategy.    *)
(*                                                                         *)
(* The scalar type T is modelled as IEEE-754 arithmetic over exact         *)
(* rationals (no rounding, no overflow) extended with +0, -0, +Inf, -Inf   *)
(* and a single NaN.                                                       *)
(***************************************************************************)
EXTENDS Integers, Sequences, FiniteSets, TLC

(***************************************************************************)
(* Bounds of the model.                                                    *)
(***************************************************************************)
\* channel indices are 0..MaxChan
MaxChan == 2
\* longest index pack Dn... a declared variable has
MaxLen == 2
\* raw scalars handed to constructors, setters and operators are the
\* integers -MaxInt..MaxInt (and the negative zero)
MaxInt == 1
\* longest chain of operator applications feeding one result
MaxDepth == 2
\* most derivative slots of x and y together that hold an overwritten value
MaxDirty == 1
\* largest arity of a declared collection
MaxArity == 2
\* the leaves of an expression over <cmath> functions hold the integers
\* -MaxInt..MaxBase
MaxBase == 3
\* most operator applications nested in such an expression
MaxChain == 3

(***************************************************************************)
(* The scalar type T.                                                      *)
(*   [k |-> "fin", n, d]  the rational n/d, d > 0, gcd(n, d) = 1;          *)
(*                        n = 0, d = 1 is +0                               *)
(*   [k |-> "nz"]         -0                                               *)
(*   [k |-> "inf", n]     n = 1: +Inf, n = -1: -Inf                        *)
(*   [k |-> "nan"]        NaN                                              *)
(*   [k |-> "log", n, d]  the irrational std::log(n/d), n/d > 0, n/d # 1   *)
(*   [k |-> "sym", n, d, f, a, b, e, s]                                    *)
(*                        (n/d) * f(a, b)^e for another irrational result  *)
(*                        f(a, b) of <cmath> at rational arguments, n # 0, *)
(*                        e = 1 or -1, s the sign of f(a, b)               *)
(*   [k |-> "unk"]        a finite result outside this algebra (a sum or a *)
(*                        product of irrationals); the model does not      *)
(*                        follow a computation that produces one           *)
(***************************************************************************)
Abs(i) == IF i < 0 THEN -i ELSE i

RECURSIVE Gcd(_, _)
Gcd(a, b) == IF b = 0 THEN a ELSE Gcd(b, a % b)

Fin(n, d) == [k |-> "fin", n |-> n, d |-> d]
Zero == Fin(0, 1)
One == Fin(1, 1)
NegZero == [k |-> "nz", n |-> 0, d |-> 1]
PosInf == [k |-> "inf", n |-> 1, d |-> 0]
NegInf == [k |-> "inf", n |-> -1, d |-> 0]
NaN == [k |-> "nan", n |-> 0, d |-> 0]
Unk == [k |-> "unk", n |-> 0, d |-> 0]
Int2T(i) == Fin(i, 1)

\* the rational n/d (n # 0, d # 0) in lowest terms with a positive denominator
Rat(n, d) ==
    LET g == Gcd(Abs(n), Abs(d))
        s == IF d < 0 THEN -1 ELSE 1
    IN  Fin((s * n) \div g, (s * d) \div g)

IsNaN(a) == a.k = "nan"
IsInf(a) == a.k = "inf"
IsZero(a) == a.k = "nz" \/ (a.k = "fin" /\ a.n = 0)
IsFinite(a) == a.k = "fin" \/ a.k = "nz"
\* the values arithmetic is modelled on (everything but an irrational)
IsArith(a) == a.k \in {"fin", "nz", "inf", "nan"}
IsUnk(a) == a.k = "unk"
IsSym(a) == a.k \in {"log", "sym"}

\* (cn/cd) * f(a, b)^e in normal form; s is the sign of f(a, b)
MkSym(cn, cd, f, a, b, e, s) ==
    LET c == Rat(cn, cd)
    IN  IF f = "log" /\ c = One /\ e = 1
        THEN [k |-> "log", n |-> a.n, d |-> a.d]
        ELSE [k |-> "sym", n |-> c.n, d |-> c.d, f |-> f, a |-> a, b |-> b, e |-> e, s |-> s]
AsSym(t) ==
    IF t.k = "log"
    THEN [k |-> "sym", n |-> 1, d |-> 1, f |-> "log", a |-> Fin(t.n, t.d), b |-> Zero,
          e |-> 1, s |-> IF t.n < t.d THEN -1 ELSE 1]
    ELSE t
\* t * (cn/cd), or (cn/cd) / t when e = -1
SymScale(t, cn, cd, e) == MkSym(t.n * cn, t.d * cd, t.f, t.a, t.b, e * t.e, t.s)
SymInvert(t, cn, cd) == MkSym(t.d * cn, t.n * cd, t.f, t.a, t.b, -t.e, t.s)

\* the sign of sin(q) and of cos(q) for a rational q # 0, from
\* 333/106 < pi < 355/113; 0 when these bounds do not decide it
SinSign(q) ==
    LET n == Abs(q.n)
        klo == (n * 113) \div (q.d * 355)
        khi == (n * 106) \div (q.d * 333)
        sg == IF q.n < 0 THEN -1 ELSE 1
    IN  IF klo # khi THEN 0 ELSE IF klo % 2 = 0 THEN sg ELSE -sg
CosSign(q) ==
    LET n == Abs(q.n)
        klo == (2 * n * 113 + q.d * 355) \div (2 * q.d * 355)
        khi == (2 * n * 106 + q.d * 333) \div (2 * q.d * 333)
    IN  IF klo # khi THEN 0 ELSE IF klo % 2 = 0 THEN 1 ELSE -1

\* the sign bit: -1 when set (0: the sign of an irrational is not known)
SignOf(a) ==
    CASE a.k = "log" -> (IF a.n < a.d THEN -1 ELSE 1)
      [] a.k = "sym" -> (IF a.n < 0 THEN -a.s ELSE a.s)
      [] OTHER -> IF a.k = "nz" \/ (a.k \in {"fin", "inf"} /\ a.n < 0) THEN -1 ELSE 1
SignMul(a, b) == SignOf(a) * SignOf(b)
SignedZero(s) == IF s = 0 THEN Unk ELSE IF s < 0 THEN NegZero ELSE Zero
SignedInf(s) == IF s = 0 THEN Unk ELSE IF s < 0 THEN NegInf ELSE PosInf

\* unary minus of T: flips the sign bit
TNeg(a) ==
    CASE IsUnk(a) -> Unk
      [] IsSym(a) -> SymScale(AsSym(a), -1, 1, 1)
      [] IsNaN(a) -> NaN
      [] IsInf(a) -> SignedInf(-a.n)
      [] IsZero(a) -> SignedZero(-SignOf(a))
      [] OTHER -> Fin(-a.n, a.d)

\* a + b, round-to-nearest: an exact zero sum is +0 unless both are -0
TAdd(a, b) ==
    CASE IsUnk(a) \/ IsUnk(b) -> Unk
      [] IsNaN(a) \/ IsNaN(b) -> NaN
      [] IsSym(a) /\ IsSym(b) -> Unk
      [] IsSym(a) -> (IF IsInf(b) THEN b ELSE IF IsZero(b) THEN a ELSE Unk)
      [] IsSym(b) -> (IF IsInf(a) THEN a ELSE IF IsZero(a) THEN b ELSE Unk)
      [] IsInf(a) /\ IsInf(b) -> IF a.n = b.n THEN a ELSE NaN
      [] IsInf(a) -> a
      [] IsInf(b) -> b
      [] IsZero(a) /\ IsZero(b) ->
            IF SignOf(a) < 0 /\ SignOf(b) < 0 THEN NegZero ELSE Zero
      [] IsZero(a) -> b
      [] IsZero(b) -> a
      [] OTHER ->
            LET n == a.n * b.d + b.n * a.d
            IN  IF n = 0 THEN Zero ELSE Rat(n, a.d * b.d)

\* a - b
TSub(a, b) == TAdd(a, TNeg(b))

\* a * b
TMul(a, b) ==
    CASE IsUnk(a) \/ IsUnk(b) -> Unk
      [] IsNaN(a) \/ IsNaN(b) -> NaN
      [] IsSym(a) /\ IsSym(b) -> Unk
      [] (IsInf(a) /\ IsZero(b)) \/ (IsZero(a) /\ IsInf(b)) -> NaN
      [] IsInf(a) \/ IsInf(b) -> SignedInf(SignMul(a, b))
      [] IsZero(a) \/ IsZero(b) -> SignedZero(SignMul(a, b))
      [] IsSym(a) -> SymScale(AsSym(a), b.n, b.d, 1)
      [] IsSym(b) -> SymScale(AsSym(b), a.n, a.d, 1)
      [] OTHER -> Rat(a.n * b.n, a.d * b.d)

\* a / b
TDiv(a, b) ==
    CASE IsUnk(a) \/ IsUnk(b) -> Unk
      [] IsNaN(a) \/ IsNaN(b) -> NaN
      [] IsSym(a) /\ IsSym(b) -> Unk
      [] (IsInf(a) /\ IsInf(b)) \/ (IsZero(a) /\ IsZero(b)) -> NaN
      [] IsInf(a) \/ IsZero(b) -> SignedInf(SignMul(a, b))
      [] IsInf(b) \/ IsZero(a) -> SignedZero(SignMul(a, b))
      [] IsSym(a) -> SymScale(AsSym(a), b.d, b.n, 1)
      [] IsSym(b) -> SymInvert(AsSym(b), a.n, a.d)
      [] OTHER -> Rat(a.n * b.d, a.d * b.n)

\* mutant: the comparison is a <= 0, true for both zeros
TLtZero_or_equal(a) ==
    \/ (a.k \in {"fin", "inf"} /\ a.n <= 0) \/ a.k = "nz"
    \/ (IsSym(a) /\ SignOf(a) < 0)
\* a < b for b = static_cast<T>(0): false for NaN and for both zeros
TLtZero(a) == (a.k \in {"fin", "inf"} /\ a.n < 0) \/ (IsSym(a) /\ SignOf(a) < 0)

\* std::log on T
TLog(a) ==
    CASE IsUnk(a) \/ IsSym(a) -> Unk
      [] IsNaN(a) -> NaN
      [] TLtZero(a) -> NaN
      [] IsZero(a) -> NegInf
      [] IsInf(a) -> PosInf
      [] a = One -> Zero
      [] OTHER -> [k |-> "log", n |-> a.n, d |-> a.d]

\* std::sin on T
TSin(a) ==
    CASE IsUnk(a) \/ IsSym(a) -> Unk
      [] IsNaN(a) \/ IsInf(a) -> NaN
      [] IsZero(a) -> a
      [] OTHER -> MkSym(1, 1, "sin", a, Zero, 1, SinSign(a))

\* std::cos on T
TCos(a) ==
    CASE IsUnk(a) \/ IsSym(a) -> Unk
      [] IsNaN(a) \/ IsInf(a) -> NaN
      [] IsZero(a) -> One
      [] OTHER -> MkSym(1, 1, "cos", a, Zero, 1, CosSign(a))

\* std::exp on T
TExp(a) ==
    CASE IsUnk(a) \/ IsSym(a) -> Unk
      [] IsNaN(a) -> NaN
      [] IsInf(a) -> (IF a.n > 0 THEN PosInf ELSE Zero)
      [] IsZero(a) -> One
      [] OTHER -> MkSym(1, 1, "exp", a, Zero, 1, 1)

\* the integer square root of a natural number
ISqrt(n) == CHOOSE q \in 0..n : q * q <= n /\ (q + 1) * (q + 1) > n

\* std::sqrt on T
TSqrt(a) ==
    CASE IsUnk(a) \/ IsSym(a) -> Unk
      [] IsNaN(a) \/ TLtZero(a) -> NaN
      [] IsZero(a) \/ IsInf(a) -> a
      [] ISqrt(a.n) * ISqrt(a.n) = a.n /\ ISqrt(a.d) * ISqrt(a.d) = a.d ->
            Fin(ISqrt(a.n), ISqrt(a.d))
      [] OTHER -> MkSym(1, 1, "sqrt", a, Zero, 1, 1)

RECURSIVE NatPow(_, _)
NatPow(b, e) == IF e = 0 THEN 1 ELSE b * NatPow(b, e - 1)

\* std::pow on T (C99 F.10.4.4)
TPow(a, b) ==
    LET int == b.k = "fin" /\ b.d = 1
        odd == int /\ b.n % 2 = 1
        neg == TLtZero(b)
        small == IsFinite(a) /\ (IsZero(a) \/ Abs(a.n) < a.d)
    IN  CASE IsUnk(a) \/ IsUnk(b) \/ IsSym(a) \/ IsSym(b) -> Unk
          [] IsZero(b) \/ a = One -> One
          [] IsNaN(a) \/ IsNaN(b) -> NaN
          [] IsZero(a) ->
                (IF neg THEN (IF odd THEN SignedInf(SignOf(a)) ELSE PosInf)
                 ELSE (IF odd THEN a ELSE Zero))
          [] IsInf(b) ->
                (IF a = Int2T(-1) THEN One
                 ELSE IF small = neg THEN PosInf ELSE Zero)
          [] IsInf(a) ->
                (IF a.n > 0 THEN (IF neg THEN Zero ELSE PosInf)
                 ELSE IF neg THEN (IF odd THEN NegZero ELSE Zero)
                 ELSE (IF odd THEN NegInf ELSE PosInf))
          [] ~int -> (IF a.n < 0 THEN NaN ELSE MkSym(1, 1, "pow", a, b, 1, 1))
          [] b.n > 0 -> Rat(NatPow(a.n, b.n), NatPow(a.d, b.n))
          [] OTHER -> Rat(NatPow(a.d, -b.n), NatPow(a.n, -b.n))

(***************************************************************************)
(* helpers/indices.hpp: packs of indices are sequences.                    *)
(***************************************************************************)
contains(I, Is) == \E i \in 1..Len(Is) : Is[i] = I

\* the left fold indices<>{} + ... + wrap_if<Is>{} keeps the accepted
\* elements in their order
\* (Predicate is the function I |-> Predicate<I>::value on the elements of Is)
indices_filter(Is, Predicate) == SelectSeq(Is, LAMBDA I : Predicate[I])

\* mutant: the shared elements in the order of the second pack
indices_interception_second(Ia, Ib) ==
    indices_filter(Ib, [I \in {Ib[i] : i \in 1..Len(Ib)} |-> contains(I, Ia)])

indices_interception(Ia, Ib) ==
    indices_filter(Ia, [I \in {Ia[i] : i \in 1..Len(Ia)} |-> contains(I, Ib)])

\* mutant: nothing is removed
indices_difference_none(Ia, Ib) == Ia

indices_difference(Ia, Ib) ==
    indices_filter(Ia, [I \in {Ia[i] : i \in 1..Len(Ia)} |-> ~contains(I, Ib)])

\* mutant: the second pack is appended once more
indices_concat_twice(Ia, Ib, Ic) == Ia \o Ib \o Ic \o Ib
indices_concat(Ia, Ib, Ic) == Ia \o Ib \o Ic

\* mutant: the deduplicated left-then-right order
binary_operation_indices_union(N1, N2) ==
    LET common == indices_interception(N1, N2)
        only_1 == indices_difference(N1, common)
        only_2 == indices_difference(N2, common)
    IN  [common |-> common, only_1 |-> only_1, only_2 |-> only_2,
         result |-> N1 \o only_2]

binary_operation_indices(N1, N2) ==
    LET common == indices_interception(N1, N2)
        only_1 == indices_difference(N1, common)
        only_2 == indices_difference(N2, common)
    IN  [common |-> common, only_1 |-> only_1, only_2 |-> only_2,
         result |-> indices_concat(only_1, common, only_2)]

(***************************************************************************)
(* number.hpp: number<T, Dn...> is [v, ch, dv]: the scalar value_, the     *)
(* pack Dn... and the tuple dvalues_, one slot per element of the pack.    *)
(***************************************************************************)
\* mutant: the seed is 0
dvalue_type_zero == Zero

\* T value{1.0} of dvalue_type<D>
dvalue_type == One

\* explicit number() = default
number_default(Dn) ==
    [v |-> Zero, ch |-> Dn, dv |-> [i \in 1..Len(Dn) |-> dvalue_type]]

\* explicit number(const T &init) : value_{init}, dvalues_{}
number_init(init, Dn) ==
    [v |-> init, ch |-> Dn, dv |-> [i \in 1..Len(Dn) |-> dvalue_type]]

is_number_v(N) == DOMAIN N = {"v", "ch", "dv"}

\* the position std::get<dvalue_type<D>> selects: the one slot of type
\* dvalue_type<D> (it does not compile unless there is exactly one)
slot(Dn, D) == CHOOSE i \in 1..Len(Dn) : Dn[i] = D
has_slot(Dn, D) == Cardinality({i \in 1..Len(Dn) : Dn[i] = D}) = 1

value(n) == n.v
set_value(n, val) == [n EXCEPT !.v = val]
dvalue(n, D) == n.dv[slot(n.ch, D)]
\* mutant: the first slot is written, whatever D is
set_dvalue_first(n, D, val) == [n EXCEPT !.dv[1] = val]
set_dvalue(n, D, val) == [n EXCEPT !.dv[slot(n.ch, D)] = val]

(***************************************************************************)
(* helpers/operations.hpp: duo and make_duo.                               *)
(***************************************************************************)
\* mutant: the derivative is read from the first slot
make_duo_first(D, n) == [v |-> value(n), d |-> n.dv[1]]
make_duo(D, n) == [v |-> value(n), d |-> dvalue(n, D)]
is_duo(a) == DOMAIN a = {"v", "d"}

(***************************************************************************)
(* The strategies: value and the dvalue overloads of each functor.         *)
(* _nn: (duo, duo), _vn: (T, duo), _nv: (duo, T).                          *)
(***************************************************************************)
plus_value(v1, v2) == TAdd(v1, v2)
plus_dvalue_nn(n1, n2) == TAdd(n1.d, n2.d)
plus_dvalue_vn(v1, n2) == n2.d
\* mutant: the derivative of the Dual operand is dropped
plus_dvalue_nv_dropped(n1, v2) == Zero
plus_dvalue_nv(n1, v2) == n1.d

minus_value(v1, v2) == TSub(v1, v2)
minus_dvalue_nn(n1, n2) == TSub(n1.d, n2.d)
\* mutant: the sign of the subtrahend is lost
minus_dvalue_vn_unsigned(v1, n2) == n2.d
minus_dvalue_vn(v1, n2) == TNeg(n2.d)
minus_dvalue_nv(n1, v2) == n1.d

multiplies_value(v1, v2) == TMul(v1, v2)
\* mutant: the product rule without its second term
multiplies_dvalue_nn_half(n1, n2) == TMul(n1.v, n2.d)
multiplies_dvalue_nn(n1, n2) == TAdd(TMul(n1.v, n2.d), TMul(n2.v, n1.d))
multiplies_dvalue_vn(v1, n2) == TMul(v1, n2.d)
\* mutant: the Dual's own value stands where the plain scalar belongs
multiplies_dvalue_nv_own(n1, v2) == TMul(n1.v, n1.d)
multiplies_dvalue_nv(n1, v2) == TMul(v2, n1.d)

divides_value(v1, v2) == TDiv(v1, v2)
\* mutant: the denominator is not squared
divides_dvalue_nn_unsquared(n1, n2) ==
    TDiv(TSub(TMul(n2.v, n1.d), TMul(n1.v, n2.d)), n2.v)
divides_dvalue_nn(n1, n2) ==
    TDiv(TSub(TMul(n2.v, n1.d), TMul(n1.v, n2.d)), TMul(n2.v, n2.v))
\* mutant: a zero denominator is answered with the derivative 0
divides_dvalue_vn_guarded(v1, n2) ==
    IF IsZero(n2.v) THEN Zero ELSE TDiv(TMul(TNeg(v1), n2.d), TMul(n2.v, n2.v))
divides_dvalue_vn(v1, n2) == TDiv(TMul(TNeg(v1), n2.d), TMul(n2.v, n2.v))
divides_dvalue_nv(n1, v2) == TDiv(TMul(v2, n1.d), TMul(v2, v2))

negate_value(v) == TNeg(v)
\* mutant: the derivative is passed through
negate_dvalue_same(n) == n.d
negate_dvalue(n) == TNeg(n.d)

log_value(v) == TLog(v)
\* mutant: no domain guard
log_dvalue_unguarded(n) == TDiv(n.d, n.v)
log_dvalue(n) == IF TLtZero(n.v) THEN NaN ELSE TDiv(n.d, n.v)

sin_value(v) == TSin(v)
\* mutant: the derivative of the argument is dropped
sin_dvalue_unchained(n) == TCos(n.v)
sin_dvalue(n) == TMul(TCos(n.v), n.d)

cos_value(v) == TCos(v)
cos_dvalue(n) == TMul(TNeg(TSin(n.v)), n.d)

exp_value(v) == TExp(v)
exp_dvalue(n) == TMul(TExp(n.v), n.d)

\* sqrt.hpp: value std::sqrt(v), derivative n.d / (2 * std::sqrt(n.v)),
\* no guard
sqrt_value(v) == TSqrt(v)
\* mutant: the derivative at the value 0 is answered with 0
sqrt_dvalue_guarded(n) ==
    IF IsZero(n.v) THEN Zero ELSE TDiv(n.d, TMul(Int2T(2), TSqrt(n.v)))
sqrt_dvalue(n) == TDiv(n.d, TMul(Int2T(2), TSqrt(n.v)))

pow_value(v1, v2) == TPow(v1, v2)
pow_dvalue_nn(n1, n2) ==
    TMul(TPow(n1.v, TSub(n2.v, One)),
         TAdd(TMul(n2.v, n1.d), TMul(TMul(n1.v, n2.d), TLog(n1.v))))
\* mutant: the logarithm of the exponent instead of the base
pow_dvalue_vn_exponent(v1, n2) == TMul(TMul(n2.d, TPow(v1, n2.v)), TLog(n2.v))
pow_dvalue_vn(v1, n2) == TMul(TMul(n2.d, TPow(v1, n2.v)), TLog(v1))
pow_dvalue_nv(n1, v2) == TMul(TMul(v2, TPow(n1.v, TSub(v2, One))), n1.d)

UnaryOps == {"negate", "log"}
BinaryOps == {"plus", "minus", "multiplies", "divides"}

\* self()->value(v1) and self()->dvalue(duo) of a unary strategy
unary_self_value(Derived, v1) ==
    CASE Derived = "negate" -> negate_value(v1)
      [] Derived = "log" -> log_value(v1)
      [] Derived = "sin" -> sin_value(v1)
      [] Derived = "cos" -> cos_value(v1)
      [] Derived = "exp" -> exp_value(v1)
      [] Derived = "sqrt" -> sqrt_value(v1)

unary_self_dvalue(Derived, n) ==
    CASE Derived = "negate" -> negate_dvalue(n)
      [] Derived = "log" -> log_dvalue(n)
      [] Derived = "sin" -> sin_dvalue(n)
      [] Derived = "cos" -> cos_dvalue(n)
      [] Derived = "exp" -> exp_dvalue(n)
      [] Derived = "sqrt" -> sqrt_dvalue(n)

\* self()->value(v1, v2) of a binary strategy
binary_self_value(Derived, v1, v2) ==
    CASE Derived = "plus" -> plus_value(v1, v2)
      [] Derived = "minus" -> minus_value(v1, v2)
      [] Derived = "multiplies" -> multiplies_value(v1, v2)
      [] Derived = "divides" -> divides_value(v1, v2)
      [] Derived = "pow" -> pow_value(v1, v2)

\* self()->dvalue(a, b): the overload the argument types select
binary_self_dvalue(Derived, a, b) ==
    CASE is_duo(a) /\ is_duo(b) ->
            (CASE Derived = "plus" -> plus_dvalue_nn(a, b)
               [] Derived = "minus" -> minus_dvalue_nn(a, b)
               [] Derived = "multiplies" -> multiplies_dvalue_nn(a, b)
               [] Derived = "divides" -> divides_dvalue_nn(a, b)
               [] Derived = "pow" -> pow_dvalue_nn(a, b))
      [] ~is_duo(a) /\ is_duo(b) ->
            (CASE Derived = "plus" -> plus_dvalue_vn(a, b)
               [] Derived = "minus" -> minus_dvalue_vn(a, b)
               [] Derived = "multiplies" -> multiplies_dvalue_vn(a, b)
               [] Derived = "divides" -> divides_dvalue_vn(a, b)
               [] Derived = "pow" -> pow_dvalue_vn(a, b))
      [] is_duo(a) /\ ~is_duo(b) ->
            (CASE Derived = "plus" -> plus_dvalue_nv(a, b)
               [] Derived = "minus" -> minus_dvalue_nv(a, b)
               [] Derived = "multiplies" -> multiplies_dvalue_nv(a, b)
               [] Derived = "divides" -> divides_dvalue_nv(a, b)
               [] Derived = "pow" -> pow_dvalue_nv(a, b))

(***************************************************************************)
(* helpers/operations.hpp: unary_operation.                                *)
(***************************************************************************)
unary_update_value(Derived, v1, n) == set_value(n, unary_self_value(Derived, v1))

\* mutant: the duo is always made from the first index of the operand
unary_update_dvalue_first(Derived, D, n1, n) ==
    set_dvalue(n, D, unary_self_dvalue(Derived, make_duo(Head(n1.ch), n1)))

unary_update_dvalue(Derived, D, n1, n) ==
    set_dvalue(n, D, unary_self_dvalue(Derived, make_duo(D, n1)))

\* (update_dvalue<Dn>(n1, n), ...): one call per index, left to right
RECURSIVE unary_update_dvalues(_, _, _, _)
unary_update_dvalues(Derived, Dn, n1, n) ==
    IF Dn = <<>> THEN n
    ELSE unary_update_dvalues(Derived, Tail(Dn), n1,
                              unary_update_dvalue(Derived, Head(Dn), n1, n))

unary_operation(Derived, n1) ==
    LET result == number_default(n1.ch)
        r1 == unary_update_value(Derived, value(n1), result)
    IN  unary_update_dvalues(Derived, n1.ch, n1, r1)

(***************************************************************************)
(* helpers/operations.hpp: binary_operation.                               *)
(***************************************************************************)
\* mutant: the operands are swapped
binary_update_value_swapped(Derived, v1, v2, n) ==
    set_value(n, binary_self_value(Derived, v2, v1))

binary_update_value(Derived, v1, v2, n) ==
    set_value(n, binary_self_value(Derived, v1, v2))

binary_update_dvalue(Derived, D, n1, n2, n) ==
    IF ~is_number_v(n1)
    THEN set_dvalue(n, D, binary_self_dvalue(Derived, n1, make_duo(D, n2)))
    ELSE IF ~is_number_v(n2)
    THEN set_dvalue(n, D, binary_self_dvalue(Derived, make_duo(D, n1), n2))
    ELSE set_dvalue(n, D, binary_self_dvalue(Derived, make_duo(D, n1), make_duo(D, n2)))

RECURSIVE binary_update_dvalues(_, _, _, _, _)
\* mutant: only the first index of the pack is written
binary_update_dvalues_first(Derived, Dn, n1, n2, n) ==
    IF Dn = <<>> THEN n ELSE binary_update_dvalue(Derived, Head(Dn), n1, n2, n)
binary_update_dvalues(Derived, Dn, n1, n2, n) ==
    IF Dn = <<>> THEN n
    ELSE binary_update_dvalues(Derived, Tail(Dn), n1, n2,
                               binary_update_dvalue(Derived, Head(Dn), n1, n2, n))

\* operator()(const number<T, D1...> &n1, const T &v2)
binary_operation_nv(Derived, n1, v2) ==
    LET result == number_default(n1.ch)
        r1 == binary_update_value(Derived, value(n1), v2, result)
    IN  binary_update_dvalues(Derived, n1.ch, n1, v2, r1)

\* operator()(const T &v1, const number<T, D2...> &n2)
binary_operation_vn(Derived, v1, n2) ==
    LET result == number_default(n2.ch)
        r1 == binary_update_value(Derived, v1, value(n2), result)
    IN  binary_update_dvalues(Derived, n2.ch, v1, n2, r1)

\* mutant: the shared indices get the scalar-fallback rule
binary_operation_nn_fallback(Derived, n1, n2) ==
    LET indices == binary_operation_indices(n1.ch, n2.ch)
        result == number_default(indices.result)
        r1 == binary_update_value(Derived, value(n1), value(n2), result)
        r2 == binary_update_dvalues(Derived, indices.only_1, n1, value(n2), r1)
        r3 == binary_update_dvalues(Derived, indices.only_2, value(n1), n2, r2)
    IN  binary_update_dvalues(Derived, indices.common, n1, value(n2), r3)

\* operator()(const number<T, D1...> &n1, const number<T, D2...> &n2)
binary_operation_nn(Derived, n1, n2) ==
    LET indices == binary_operation_indices(n1.ch, n2.ch)
        result == number_default(indices.result)
        r1 == binary_update_value(Derived, value(n1), value(n2), result)
        r2 == binary_update_dvalues(Derived, indices.only_1, n1, value(n2), r1)
        r3 == binary_update_dvalues(Derived, indices.only_2, value(n1), n2, r2)
    IN  binary_update_dvalues(Derived, indices.common, n1, n2, r3)

(***************************************************************************)
(* operations.hpp: the binary_operation whose result pack is the           *)
(* deduplicated concatenation of the operands' packs, with its helpers.    *)
(***************************************************************************)
has_indice(I, Is) == \E i \in 1..Len(Is) : I = Is[i]

\* impl::indices_set<indices<I, Is...>, indices<Iout...>>: I is appended
\* to Iout unless Iout has it
RECURSIVE indices_set_impl(_, _)
indices_set_impl(Is, Iout) ==
    IF Is = <<>> THEN Iout
    ELSE IF has_indice(Head(Is), Iout) THEN indices_set_impl(Tail(Is), Iout)
    ELSE indices_set_impl(Tail(Is), Append(Iout, Head(Is)))

\* mutant: nothing is deduplicated
indices_set_all(Is) == Is

indices_set(Is) == indices_set_impl(Is, <<>>)

indices_union(Ia, Ib) == indices_set(Ia \o Ib)

\* operator()(const number<T, D1...> &n1, const number<T, D2...> &n2)
binary_operation_set_nn(Derived, n1, n2) ==
    LET indices_n1_only == indices_difference(n1.ch, n2.ch)
        indices_n2_only == indices_difference(n2.ch, n1.ch)
        indices_inner == indices_interception(n1.ch, n2.ch)
        indices_result == indices_set(n1.ch \o n2.ch)
        result == number_default(indices_result)
        r1 == binary_update_value(Derived, value(n1), value(n2), result)
        r2 == binary_update_dvalues(Derived, indices_n1_only, n1, value(n2), r1)
        r3 == binary_update_dvalues(Derived, indices_n2_only, value(n1), n2, r2)
    IN  binary_update_dvalues(Derived, indices_inner, n1, n2, r3)

\* operator()(const number<T, D1...> &n1, const T &v2)
binary_operation_set_nv(Derived, n1, v2) ==
    LET indices_result == indices_set(n1.ch)
        result == number_default(indices_result)
        r1 == binary_update_value(Derived, value(n1), v2, result)
    IN  binary_update_dvalues(Derived, indices_result, n1, v2, r1)

\* operator()(const T &v1, const number<T, D2...> &n2)
binary_operation_set_vn(Derived, v1, n2) ==
    LET indices_result == indices_set(n2.ch)
        result == number_default(indices_result)
        r1 == binary_update_value(Derived, v1, value(n2), result)
    IN  binary_update_dvalues(Derived, indices_result, v1, n2, r1)

(***************************************************************************)
(* array.hpp: array<Ts...> is [storage], the tuple storage_ as a sequence  *)
(* of numbers.  A call that does not compile has the outcome IllFormed.    *)
(***************************************************************************)
array(init) == [storage |-> init]
is_array_v(c) == DOMAIN c = {"storage"}
IllFormed == [ill_formed |-> TRUE, storage |-> <<>>]

\* static constexpr std::size_t size(): sizeof...(Ts)
array_size(c) == Len(c.storage)

\* indices_sequence_t<Start, Size>: Start, Start + 1, ...
indices_sequence(Start, Size) == [i \in 1..Size |-> Start + (i - 1)]

\* static constexpr auto indices(): indices_sequence_for_t<0, Ts...>
array_indices(c) == indices_sequence(0, array_size(c))

\* std::get<N>(const dual::array<Ts...> &): std::get<N>(a.storage()), which
\* compiles only for N < sizeof...(Ts)
std_get_compiles(N, c) == N < array_size(c)
std_get(N, c) == c.storage[N + 1]

\* array() = default: storage_t storage_{}, every slot a default Dual of
\* its type (Ts is the sequence of the slots' packs)
array_default(Ts) == array([i \in 1..Len(Ts) |-> number_default(Ts[i])])

RECURSIVE array_update_std(_, _, _)
\* mutant: every slot takes the first raw value
array_update_std_first(c, data, Is) ==
    array([i \in 1..array_size(c) |-> set_value(c.storage[i], data[1])])

\* void update(const std::array<U, sizeof...(Ts)> &data, dual::indices<Is...>):
\* std::get<Is>(storage_).value(std::get<Is>(data)) for each Is, in order
array_update_std(c, data, Is) ==
    IF Is = <<>> THEN c
    ELSE array_update_std(
            array([c.storage EXCEPT ![Head(Is) + 1] = set_value(@, data[Head(Is) + 1])]),
            data, Tail(Is))

\* explicit array(const std::array<U, sizeof...(Ts)> &init)
array_construct_std(Ts, init) ==
    array_update_std(array_default(Ts), init, indices_sequence(0, Len(Ts)))

\* mutant: the collection is built anew from the raw values
array_assign_std_anew(c, init) ==
    array_construct_std([i \in 1..array_size(c) |-> c.storage[i].ch], init)

\* array &operator=(const std::array<U, sizeof...(Ts)> &init)
array_assign_std(c, init) == array_update_std(c, init, array_indices(c))

\* auto to_array() const: std::array{elems.value()...}
to_array(c) == [i \in 1..array_size(c) |-> value(c.storage[i])]

(***************************************************************************)
(* helpers/operations.hpp: transform_unary_operation,                      *)
(* transform_binary_operation and broadcast_operation.  The strategy       *)
(* <op>_transform applies the operator <op> to one element (or one pair).  *)
(***************************************************************************)
\* self()->transform(n) of negate_transform, log_transform, ...: op(n)
unary_self_transform(Derived, n) == unary_operation(Derived, n)

\* self()->transform(n1, n2) of plus_transform, plus_broadcast, ...: n1 op
\* n2, the call shape following the types of the operands
binary_self_transform(Derived, n1, n2) ==
    CASE is_number_v(n1) /\ is_number_v(n2) -> binary_operation_nn(Derived, n1, n2)
      [] is_number_v(n1) /\ ~is_number_v(n2) -> binary_operation_nv(Derived, n1, n2)
      [] ~is_number_v(n1) /\ is_number_v(n2) -> binary_operation_vn(Derived, n1, n2)

\* transform_unary_operation::operator()(const array<T...> &c)
transform_unary_operation(Derived, c) ==
    LET Is == array_indices(c)
    IN  array([i \in 1..Len(Is) |-> unary_self_transform(Derived, std_get(Is[i], c))])

\* mutant: the two collections are walked in opposite directions
transform_binary_operation_reversed(Derived, c1, c2) ==
    LET Is == array_indices(c2)
    IN  IF \A i \in 1..Len(Is) : std_get_compiles(Is[i], c1) /\ std_get_compiles(Is[i], c2)
        THEN array([i \in 1..Len(Is) |->
                binary_self_transform(Derived, std_get(Is[Len(Is) + 1 - i], c1),
                                      std_get(Is[i], c2))])
        ELSE IllFormed

\* transform_binary_operation::operator()(const array<T1...> &c1,
\* const array<T2...> &c2): transform(c1, c2, c2.indices())
transform_binary_operation(Derived, c1, c2) ==
    LET Is == array_indices(c2)
    IN  IF \A i \in 1..Len(Is) : std_get_compiles(Is[i], c1) /\ std_get_compiles(Is[i], c2)
        THEN array([i \in 1..Len(Is) |->
                binary_self_transform(Derived, std_get(Is[i], c1), std_get(Is[i], c2))])
        ELSE IllFormed

\* mutant: the scalar-like operand always goes first
broadcast_operation_cs_swapped(Derived, c1, s2) ==
    LET Is == array_indices(c1)
    IN  array([i \in 1..Len(Is) |-> binary_self_transform(Derived, s2, std_get(Is[i], c1))])

\* broadcast_operation::operator()(const array<T1...> &c1, const T2 &c2)
broadcast_operation_cs(Derived, c1, s2) ==
    LET Is == array_indices(c1)
    IN  array([i \in 1..Len(Is) |-> binary_self_transform(Derived, std_get(Is[i], c1), s2)])

\* broadcast_operation::operator()(const T1 &c1, const array<T2...> &c2)
broadcast_operation_sc(Derived, s1, c2) ==
    LET Is == array_indices(c2)
    IN  array([i \in 1..Len(Is) |-> binary_self_transform(Derived, s1, std_get(Is[i], c2))])

(***************************************************************************)
(* Reference differentiation, used to judge the results of +, -, * and     *)
(* unary minus over two leaves: polynomials in the indeterminates X (the   *)
(* leaf x) and Y (the leaf y) with integer coefficients, as functions      *)
(* from the exponent pair to the coefficient.                              *)
(***************************************************************************)
RECURSIVE Pow2(_)
Pow2(k) == IF k = 0 THEN 1 ELSE 2 * Pow2(k - 1)
RECURSIVE IPow(_, _)
IPow(b, e) == IF e = 0 THEN 1 ELSE b * IPow(b, e - 1)

\* the largest exponent MaxDepth multiplications produce
Deg == Pow2(MaxDepth)
Exps == (0..Deg) \X (0..Deg)

RECURSIVE SumOver(_, _)
SumOver(S, f) ==
    IF S = {} THEN 0
    ELSE LET e == CHOOSE e \in S : TRUE IN f[e] + SumOver(S \ {e}, f)

PConst(c) == [e \in Exps |-> IF e = <<0, 0>> THEN c ELSE 0]
PVarX == [e \in Exps |-> IF e = <<1, 0>> THEN 1 ELSE 0]
PVarY == [e \in Exps |-> IF e = <<0, 1>> THEN 1 ELSE 0]
PAdd(p, q) == [e \in Exps |-> p[e] + q[e]]
PNeg(p) == [e \in Exps |-> -p[e]]
PSub(p, q) == [e \in Exps |-> p[e] - q[e]]
PMul(p, q) ==
    [e \in Exps |->
        LET parts == (0..e[1]) \X (0..e[2])
        IN  SumOver(parts, [a \in parts |-> p[a] * q[<<e[1] - a[1], e[2] - a[2]>>]])]
\* the partial derivatives with respect to X and to Y
PDiffX(p) == [e \in Exps |-> IF e[1] < Deg THEN (e[1] + 1) * p[<<e[1] + 1, e[2]>>] ELSE 0]
PDiffY(p) == [e \in Exps |-> IF e[2] < Deg THEN (e[2] + 1) * p[<<e[1], e[2] + 1>>] ELSE 0]
PEval(p, xv, yv) == SumOver(Exps, [e \in Exps |-> p[e] * IPow(xv, e[1]) * IPow(yv, e[2])])
PDegX(p) == CHOOSE m \in 0..Deg : (\A e \in Exps : p[e] # 0 => e[1] <= m)
                                  /\ (m = 0 \/ \E e \in Exps : p[e] # 0 /\ e[1] = m)
PDegY(p) == CHOOSE m \in 0..Deg : (\A e \in Exps : p[e] # 0 => e[2] <= m)
                                  /\ (m = 0 \/ \E e \in Exps : p[e] # 0 /\ e[2] = m)

\* the integer a scalar stands for (both zeros are 0)
IsInt(a) == a.k = "nz" \/ (a.k = "fin" /\ a.d = 1)
IntOf(a) == IF a.k = "nz" THEN 0 ELSE a.n
\* a == b of C++ for an integer b
TEqInt(a, i) == IsInt(a) /\ IntOf(a) = i

(***************************************************************************)
(* A client program: two declared variables x and y, whose index packs are *)
(* fixed by their types, and the latest result r (const auto r = ...).     *)
(*   depth  the number of operator applications nested in r (0: no r yet)  *)
(*   hist   the last statement executed, with copies of its operands       *)
(*   rp     the reference polynomial of r in the leaves x and y, when r    *)
(*          was built from the current x and y by +, -, * and unary minus, *)
(*          and the leaves that occur in the expression                    *)
(* and two declared collections ca and cb with the latest collection       *)
(* result cr (const auto cr = ...).                                        *)
(*   trace  the statements that built r, oldest first, where expressions   *)
(*          over <cmath> functions are followed                            *)
(*   raw    the latest std::array taken from a collection with to_array()  *)
(***************************************************************************)
VARIABLES x, y, r, depth, hist, rp, ca, cb, cr, trace, raw

vars == <<x, y, r, depth, hist, rp, ca, cb, cr, trace, raw>>
arrs == <<ca, cb, cr, raw>>
nums == <<x, y, r, depth, rp, trace>>

Chans == 0..MaxChan

\* the index packs a variable is declared with: no index twice
ChanSeqs ==
    {q \in UNION {[1..l -> Chans] : l \in 0..MaxLen} :
        \A i, j \in 1..Len(q) : q[i] = q[j] => i = j}

\* the raw scalars of the client
Inputs == {Int2T(i) : i \in (-MaxInt)..MaxInt} \cup {NegZero}

Names == {"x", "y", "r"}
NoNumber == number_default(<<>>)
NoPoly == [ok |-> FALSE, p |-> PConst(0), lv |-> {}]
NoArray == array(<<>>)

Hist(kind, op, reg, a, b, s, D) ==
    [kind |-> kind, op |-> op, reg |-> reg, a |-> a, b |-> b, s |-> s, D |-> D]

Reg(name) == CASE name = "x" -> x [] name = "y" -> y [] name = "r" -> r

\* every derivative slot still holds the value it was constructed with
Fresh(n) == \A i \in 1..Len(n.ch) : n.dv[i] = One

AllArith(n) == IsArith(n.v) /\ \A i \in 1..Len(n.ch) : IsArith(n.dv[i])

\* the reference polynomial of an operand
PolyOf(name) ==
    CASE name = "x" -> [ok |-> Fresh(x) /\ IsInt(x.v), p |-> PVarX, lv |-> {"x"}]
      [] name = "y" -> [ok |-> Fresh(y) /\ IsInt(y.v), p |-> PVarY, lv |-> {"y"}]
      [] name = "r" -> rp

PolyUnary(op, a) ==
    IF op = "negate" /\ a.ok THEN [ok |-> TRUE, p |-> PNeg(a.p), lv |-> a.lv] ELSE NoPoly

PolyBinary(op, a, b) ==
    IF a.ok /\ b.ok /\ op \in {"plus", "minus", "multiplies"}
    THEN [ok |-> TRUE,
          p |-> CASE op = "plus" -> PAdd(a.p, b.p)
                  [] op = "minus" -> PSub(a.p, b.p)
                  [] op = "multiplies" -> PMul(a.p, b.p),
          lv |-> a.lv \cup b.lv]
    ELSE NoPoly

PolyScalar(s) ==
    [ok |-> IsInt(s), p |-> PConst(IF IsInt(s) THEN IntOf(s) ELSE 0), lv |-> {}]

\* the nesting depth of a result built from these operands
NewDepth(names) == IF "r" \in names THEN depth + 1 ELSE 1
CanUse(names) ==
    /\ "r" \in names => depth >= 1
    /\ NewDepth(names) <= MaxDepth
    /\ \A nm \in names : AllArith(Reg(nm))

\* the number of derivative slots that no longer hold the seed
Dirty(n) == Cardinality({i \in 1..Len(n.ch) : n.dv[i] # One})

\* The code compares indices for equality only, so the pack of x is taken
\* in canonical form 0, 1, ...; y has any pack, and binary operators take
\* the operands in both orders.
CanonSeqs == {q \in ChanSeqs : \A i \in 1..Len(q) : q[i] = i - 1}

HistInit == Hist("init", "none", "none", NoNumber, NoNumber, Zero, 0)

Init ==
    /\ \E cx \in CanonSeqs : x = number_default(cx)
    /\ \E cy \in ChanSeqs : y = number_default(cy)
    /\ r = NoNumber
    /\ depth = 0
    /\ hist = HistInit
    /\ rp = NoPoly
    /\ ca = NoArray /\ cb = NoArray /\ cr = NoArray
    /\ raw = <<>>
    /\ trace = <<>>

\* x = number<T, Dn...>(init) for a declared variable
Construct(reg, init) ==
    /\ reg \in {"x", "y"}
    /\ x' = IF reg = "x" THEN number_init(init, x.ch) ELSE x
    /\ y' = IF reg = "y" THEN number_init(init, y.ch) ELSE y
    /\ hist' = Hist("construct", "none", reg, Reg(reg), NoNumber, init, 0)
    /\ UNCHANGED <<r, depth, rp>>
    /\ UNCHANGED <<arrs, trace>>

\* x = number<T, Dn...>{} for a declared variable
DefaultConstruct(reg) ==
    /\ reg \in {"x", "y"}
    /\ x' = IF reg = "x" THEN number_default(x.ch) ELSE x
    /\ y' = IF reg = "y" THEN number_default(y.ch) ELSE y
    /\ hist' = Hist("default", "none", reg, Reg(reg), NoNumber, Zero, 0)
    /\ UNCHANGED <<r, depth, rp>>
    /\ UNCHANGED <<arrs, trace>>

\* n.value(val)
SetValue(reg, val) ==
    /\ reg \in {"x", "y"}
    /\ x' = IF reg = "x" THEN set_value(x, val) ELSE x
    /\ y' = IF reg = "y" THEN set_value(y, val) ELSE y
    /\ hist' = Hist("set_value", "none", reg, Reg(reg), NoNumber, val, 0)
    /\ UNCHANGED <<r, depth, rp>>
    /\ UNCHANGED <<arrs, trace>>

\* n.dvalue<D>(val): compiles only when D is in the pack of n
SetDvalue(reg, D, val) ==
    /\ reg \in {"x", "y"}
    /\ has_slot(Reg(reg).ch, D)
    /\ x' = IF reg = "x" THEN set_dvalue(x, D, val) ELSE x
    /\ y' = IF reg = "y" THEN set_dvalue(y, D, val) ELSE y
    /\ Dirty(x') + Dirty(y') <= MaxDirty
    /\ hist' = Hist("set_dvalue", "none", reg, Reg(reg), NoNumber, val, D)
    /\ UNCHANGED <<r, depth, rp>>
    /\ UNCHANGED <<arrs, trace>>

\* const auto r = op(n1)
Unary(op, n1) ==
    /\ CanUse({n1})
    /\ r' = unary_operation(op, Reg(n1))
    /\ depth' = NewDepth({n1})
    /\ rp' = PolyUnary(op, PolyOf(n1))
    /\ hist' = Hist("unary", op, "r", Reg(n1), NoNumber, Zero, 0)
    /\ UNCHANGED <<x, y>>
    /\ UNCHANGED <<arrs, trace>>

\* const auto r = n1 op n2
BinaryNN(op, n1, n2) ==
    /\ CanUse({n1, n2})
    /\ r' = binary_operation_nn(op, Reg(n1), Reg(n2))
    /\ depth' = NewDepth({n1, n2})
    /\ rp' = PolyBinary(op, PolyOf(n1), PolyOf(n2))
    /\ hist' = Hist("nn", op, "r", Reg(n1), Reg(n2), Zero, 0)
    /\ UNCHANGED <<x, y>>
    /\ UNCHANGED <<arrs, trace>>

\* const auto r = n1 op v2
BinaryNV(op, n1, v2) ==
    /\ CanUse({n1})
    /\ r' = binary_operation_nv(op, Reg(n1), v2)
    /\ depth' = NewDepth({n1})
    /\ rp' = PolyBinary(op, PolyOf(n1), PolyScalar(v2))
    /\ hist' = Hist("nv", op, "r", Reg(n1), NoNumber, v2, 0)
    /\ UNCHANGED <<x, y>>
    /\ UNCHANGED <<arrs, trace>>

\* const auto r = v1 op n2
BinaryVN(op, v1, n2) ==
    /\ CanUse({n2})
    /\ r' = binary_operation_vn(op, v1, Reg(n2))
    /\ depth' = NewDepth({n2})
    /\ rp' = PolyBinary(op, PolyScalar(v1), PolyOf(n2))
    /\ hist' = Hist("vn", op, "r", NoNumber, Reg(n2), v1, 0)
    /\ UNCHANGED <<x, y>>
    /\ UNCHANGED <<arrs, trace>>

\* the statement is over: its record is dropped and the scope of r ends
Discard ==
    /\ hist # HistInit
    /\ r' = NoNumber
    /\ depth' = 0
    /\ rp' = NoPoly
    /\ hist' = HistInit
    /\ UNCHANGED <<x, y>>
    /\ UNCHANGED <<arrs, trace>>

(***************************************************************************)
(* Spec: single statements.  A statement constructs or mutates a declared  *)
(* variable, or applies one operator to the declared variables in any call *)
(* shape; hist holds it until the next statement starts.                   *)
(***************************************************************************)
Idle == hist = HistInit

Next ==
    \/ Idle /\ \E reg \in {"x", "y"}, init \in Inputs : Construct(reg, init)
    \/ Idle /\ \E reg \in {"x", "y"} : DefaultConstruct(reg)
    \/ Idle /\ \E reg \in {"x", "y"}, val \in Inputs : SetValue(reg, val)
    \/ Idle /\ \E reg \in {"x", "y"}, D \in Chans, val \in Inputs : SetDvalue(reg, D, val)
    \/ Idle /\ \E op \in UnaryOps : Unary(op, "x")
    \/ Idle /\ \E op \in BinaryOps, n \in {<<"x", "y">>, <<"y", "x">>, <<"x", "x">>} :
                        BinaryNN(op, n[1], n[2])
    \/ Idle /\ \E op \in BinaryOps, v2 \in Inputs : BinaryNV(op, "x", v2)
    \/ Idle /\ \E op \in BinaryOps, v1 \in Inputs : BinaryVN(op, v1, "x")
    \/ Discard

Spec == Init /\ [][Next]_vars

(***************************************************************************)
(* SpecExpr: expressions.  x and y are fresh leaves with disjoint packs;   *)
(* an expression over them and plain scalars is built by +, -, * and unary *)
(* minus, every operator taking the result so far as an operand.           *)
(***************************************************************************)
PolyOps == {"plus", "minus", "multiplies"}

LeafPacks ==
    {t \in (CanonSeqs \ {<<>>}) \X (ChanSeqs \ {<<>>}) :
        \A i \in 1..Len(t[1]), j \in 1..Len(t[2]) : t[1][i] # t[2][j]}

InitExpr ==
    /\ \E t \in LeafPacks, vx \in Inputs, vy \in Inputs :
            /\ x = number_init(vx, t[1])
            /\ y = number_init(vy, t[2])
    /\ r = NoNumber
    /\ depth = 0
    /\ hist = HistInit
    /\ rp = NoPoly
    /\ ca = NoArray /\ cb = NoArray /\ cr = NoArray
    /\ raw = <<>>
    /\ trace = <<>>

\* the operands of the next operator
Operand == IF depth = 0 THEN {"x", "y"} ELSE {"r"}
OperandPairs ==
    IF depth = 0 THEN {"x", "y"} \X {"x", "y"}
    ELSE {t \in Names \X Names : t[1] = "r" \/ t[2] = "r"}

NextExpr ==
    \/ \E n1 \in Operand : Unary("negate", n1)
    \/ \E op \in PolyOps, n \in OperandPairs : BinaryNN(op, n[1], n[2])
    \/ \E op \in PolyOps, n1 \in Operand, v2 \in Inputs : BinaryNV(op, n1, v2)
    \/ \E op \in PolyOps, v1 \in Inputs, n2 \in Operand : BinaryVN(op, v1, n2)

SpecExpr == InitExpr /\ [][NextExpr]_vars

(***************************************************************************)
(* SpecArray: collections.  ca and cb are declared collections of one to   *)
(* MaxArity Duals, each slot with its own pack; a statement applies an     *)
(* operator to a collection, to the two collections position by position,  *)
(* or to a collection and one scalar-like operand.                         *)
(***************************************************************************)
ArrInputs == {Int2T(i) : i \in (-MaxInt)..MaxInt}
ElemPacks == {<<0>>, <<1, 0>>}
Elems == {number_init(v, q) : v \in ArrInputs, q \in ElemPacks}
Arrays == {array(q) : q \in UNION {[1..l -> Elems] : l \in 1..MaxArity}}
\* the Duals a collection is broadcast with
BroadcastNumbers == {number_init(One, <<1>>), number_init(Int2T(-1), <<0, 2>>)}

InitArray ==
    /\ ca \in Arrays
    /\ cb \in Arrays
    /\ cr = NoArray
    /\ raw = <<>>
    /\ hist = HistInit
    /\ x = NoNumber /\ y = NoNumber /\ r = NoNumber
    /\ depth = 0
    /\ rp = NoPoly
    /\ trace = <<>>

\* const auto cr = op(ca)
TransformUnary(op) ==
    /\ cr' = transform_unary_operation(op, ca)
    /\ hist' = Hist("transform_unary", op, "cr", ca, NoArray, Zero, 0)
    /\ UNCHANGED <<ca, cb, raw>>
    /\ UNCHANGED nums

\* const auto cr = ca op cb
TransformBinary(op) ==
    /\ cr' = transform_binary_operation(op, ca, cb)
    /\ hist' = Hist("transform_binary", op, "cr", ca, cb, Zero, 0)
    /\ UNCHANGED <<ca, cb, raw>>
    /\ UNCHANGED nums

\* const auto cr = ca op s2, for a plain scalar or a Dual s2
BroadcastCS(op, s2) ==
    /\ cr' = broadcast_operation_cs(op, ca, s2)
    /\ hist' = Hist("broadcast_cs", op, "cr", ca, NoArray, s2, 0)
    /\ UNCHANGED <<ca, cb, raw>>
    /\ UNCHANGED nums

\* const auto cr = s1 op ca, for a plain scalar or a Dual s1
BroadcastSC(op, s1) ==
    /\ cr' = broadcast_operation_sc(op, s1, ca)
    /\ hist' = Hist("broadcast_sc", op, "cr", NoArray, ca, s1, 0)
    /\ UNCHANGED <<ca, cb, raw>>
    /\ UNCHANGED nums

\* the statement is over: its record is dropped and the scope of cr ends
DiscardArray ==
    /\ hist.kind # "init"
    /\ cr' = NoArray
    /\ hist' = HistInit
    /\ UNCHANGED <<ca, cb, raw>>
    /\ UNCHANGED nums

IdleArray == hist.kind = "init"

\* the operators with a broadcast overload
BroadcastOps == BinaryOps \cup {"pow"}

NextArray ==
    \/ IdleArray /\ \E op \in UnaryOps : TransformUnary(op)
    \/ IdleArray /\ \E op \in BinaryOps : TransformBinary(op)
    \/ IdleArray /\ \E op \in BroadcastOps, asDual \in BOOLEAN,
                        s \in ArrInputs, n \in BroadcastNumbers :
            BroadcastCS(op, IF asDual THEN n ELSE s)
    \/ IdleArray /\ \E op \in BroadcastOps, asDual \in BOOLEAN,
                        s \in ArrInputs, n \in BroadcastNumbers :
            BroadcastSC(op, IF asDual THEN n ELSE s)
    \/ DiscardArray

SpecArray == InitArray /\ [][NextArray]_vars

(***************************************************************************)
(* SpecStore: one declared collection ca of one to MaxArity Duals.  It is  *)
(* built from or assigned a std::array of raw values, a slot's derivative  *)
(* is written through at<N>(), and to_array() copies its values out.       *)
(***************************************************************************)
\* the packs of the slots of a collection
PacksOf(c) == [i \in 1..array_size(c) |-> c.storage[i].ch]
StoreTypes == UNION {[1..l -> ElemPacks] : l \in 1..MaxArity}
StdArrays(N) == [1..N -> ArrInputs]
\* the number of derivative slots of the collection that do not hold the seed
DirtyArray(c) ==
    Cardinality({p \in (1..array_size(c)) \X Chans :
                    /\ has_slot(c.storage[p[1]].ch, p[2])
                    /\ dvalue(c.storage[p[1]], p[2]) # One})

InitStore ==
    /\ \E Ts \in StoreTypes : ca = array_default(Ts)
    /\ cb = NoArray
    /\ cr = NoArray
    /\ raw = <<>>
    /\ hist = HistInit
    /\ x = NoNumber /\ y = NoNumber /\ r = NoNumber
    /\ depth = 0
    /\ rp = NoPoly
    /\ trace = <<>>

\* array<Ts...> ca{init}, with the type ca was declared with
ConstructStd(init) ==
    /\ ca' = array_construct_std(PacksOf(ca), init)
    /\ hist' = Hist("construct_std", "none", "ca", ca, NoArray, init, 0)
    /\ UNCHANGED <<cb, cr, raw>>
    /\ UNCHANGED nums

\* ca = init
AssignStd(init) ==
    /\ ca' = array_assign_std(ca, init)
    /\ hist' = Hist("assign_std", "none", "ca", ca, NoArray, init, 0)
    /\ UNCHANGED <<cb, cr, raw>>
    /\ UNCHANGED nums

\* ca.at<N>().dvalue<D>(val)
AtSetDvalue(N, D, val) ==
    /\ std_get_compiles(N, ca)
    /\ has_slot(std_get(N, ca).ch, D)
    /\ ca' = array([ca.storage EXCEPT ![N + 1] = set_dvalue(@, D, val)])
    /\ DirtyArray(ca') <= MaxDirty
    /\ hist' = Hist("at_dvalue", "none", "ca", ca, NoArray, val, D)
    /\ UNCHANGED <<cb, cr, raw>>
    /\ UNCHANGED nums

\* const auto raw = ca.to_array()
ToArray ==
    /\ raw' = to_array(ca)
    /\ hist' = Hist("to_array", "none", "raw", ca, NoArray, Zero, 0)
    /\ UNCHANGED <<ca, cb, cr>>
    /\ UNCHANGED nums

\* the statement is over: its record is dropped and the scope of raw ends
DiscardStore ==
    /\ hist.kind # "init"
    /\ raw' = <<>>
    /\ hist' = HistInit
    /\ UNCHANGED <<ca, cb, cr>>
    /\ UNCHANGED nums

NextStore ==
    \/ IdleArray /\ \E init \in StdArrays(array_size(ca)) : ConstructStd(init)
    \/ IdleArray /\ \E init \in StdArrays(array_size(ca)) : AssignStd(init)
    \/ IdleArray /\ \E N \in 0..(MaxArity - 1), D \in Chans, val \in ArrInputs :
            AtSetDvalue(N, D, val)
    \/ IdleArray /\ ToArray
    \/ DiscardStore

SpecStore == InitStore /\ [][NextStore]_vars

(***************************************************************************)
(* SpecFun: expressions over the <cmath> functions.  x and y are leaves;   *)
(* the first operator is applied to the leaves, every later one to the     *)
(* result so far, alone or with y or a plain scalar, the last one alone.   *)
(* A result with a scalar outside the algebra of T is not followed.        *)
(***************************************************************************)
FunUnaryOps == {"negate", "log", "sin", "cos", "exp", "sqrt"}
FunBinaryOps == BinaryOps \cup {"pow"}
FunInputs == {Int2T(i) : i \in (-MaxInt)..MaxBase}
\* the values of the leaf y
FunExponents == {Int2T(-1), Int2T(2)}
\* the plain scalars of an expression
FunScalars == {Zero, Int2T(2)}

InitFun ==
    /\ \E v \in FunInputs :
        \/ x = number_init(v, <<0>>)
        \/ x = set_dvalue(number_init(v, <<0, 1>>), 1, Int2T(-1))
    /\ \E v \in FunExponents : y = number_init(v, <<1>>)
    /\ r = NoNumber
    /\ depth = 0
    /\ hist = HistInit
    /\ rp = NoPoly
    /\ trace = <<>>
    /\ ca = NoArray /\ cb = NoArray /\ cr = NoArray
    /\ raw = <<>>

\* no scalar of n is outside the algebra of T
Modelled(n) == ~IsUnk(n.v) /\ \A i \in 1..Len(n.ch) : ~IsUnk(n.dv[i])

CanUseFun(names) ==
    /\ "r" \in names <=> depth >= 1
    /\ depth < MaxChain

\* const auto r = std::f(n1), or -n1
FunUnary(op, n1) ==
    /\ CanUseFun({n1})
    /\ r' = unary_operation(op, Reg(n1))
    /\ Modelled(r')
    /\ depth' = depth + 1
    /\ hist' = Hist("unary", op, "r", Reg(n1), NoNumber, Zero, 0)
    /\ trace' = Append(trace, hist')
    /\ UNCHANGED <<x, y, rp>>
    /\ UNCHANGED arrs

\* const auto r = n1 op n2, or std::pow(n1, n2)
FunBinaryNN(op, n1, n2) ==
    /\ CanUseFun({n1, n2})
    /\ depth + 1 < MaxChain
    /\ r' = binary_operation_nn(op, Reg(n1), Reg(n2))
    /\ Modelled(r')
    /\ depth' = depth + 1
    /\ hist' = Hist("nn", op, "r", Reg(n1), Reg(n2), Zero, 0)
    /\ trace' = Append(trace, hist')
    /\ UNCHANGED <<x, y, rp>>
    /\ UNCHANGED arrs

\* const auto r = r op v2, or std::pow(r, v2)
FunBinaryNV(op, v2) ==
    /\ CanUseFun({"r"})
    /\ depth + 1 < MaxChain
    /\ r' = binary_operation_nv(op, r, v2)
    /\ Modelled(r')
    /\ depth' = depth + 1
    /\ hist' = Hist("nv", op, "r", r, NoNumber, v2, 0)
    /\ trace' = Append(trace, hist')
    /\ UNCHANGED <<x, y, rp>>
    /\ UNCHANGED arrs

\* const auto r = v1 op r, or std::pow(v1, r)
FunBinaryVN(op, v1) ==
    /\ CanUseFun({"r"})
    /\ depth + 1 < MaxChain
    /\ r' = binary_operation_vn(op, v1, r)
    /\ Modelled(r')
    /\ depth' = depth + 1
    /\ hist' = Hist("vn", op, "r", NoNumber, r, v1, 0)
    /\ trace' = Append(trace, hist')
    /\ UNCHANGED <<x, y, rp>>
    /\ UNCHANGED arrs

FunOperand == IF depth = 0 THEN "x" ELSE "r"
FunOperandPairs ==
    IF depth = 0 THEN {<<"x", "x">>, <<"x", "y">>, <<"y", "x">>}
    ELSE {<<"r", "y">>, <<"y", "r">>}

NextFun ==
    \/ \E op \in FunUnaryOps : FunUnary(op, FunOperand)
    \/ \E op \in FunBinaryOps, n \in FunOperandPairs : FunBinaryNN(op, n[1], n[2])
    \/ \E op \in FunBinaryOps, v2 \in FunScalars : FunBinaryNV(op, v2)
    \/ \E op \in FunBinaryOps, v1 \in FunScalars : FunBinaryVN(op, v1)

SpecFun == InitFun /\ [][NextFun]_vars

(***************************************************************************)
(* Vocabulary of the properties.                                           *)
(***************************************************************************)
Range(q) == {q[i] : i \in 1..Len(q)}
NoDup(q) == \A i, j \in 1..Len(q) : q[i] = q[j] => i = j

\* the elements of A that are in the set S, in A's order
RECURSIVE Keep(_, _)
Keep(A, S) ==
    IF A = <<>> THEN <<>>
    ELSE (IF Head(A) \in S THEN <<Head(A)>> ELSE <<>>) \o Keep(Tail(A), S)

IsOp == hist.kind \in {"unary", "nn", "nv", "vn"}
IsBinary == hist.kind \in {"nn", "nv", "vn"}
\* the raw values a binary statement was applied to
LeftValue == IF hist.kind = "vn" THEN hist.s ELSE hist.a.v
RightValue == IF hist.kind = "nv" THEN hist.s ELSE hist.b.v
\* the variable a construct / set statement acted on, before and after
Pre == hist.a
Post == Reg(hist.reg)
Two == Int2T(2)

\* C1: the result of a binary operator over packs L and R (a plain scalar
\* counts as the empty pack) has the pack only_L ++ common ++ only_R, which
\* has no duplicate and is L union R as a set.
C1_ResultChannels ==
    IsBinary =>
        LET L == hist.a.ch
            R == hist.b.ch
            common == Keep(L, Range(R))
            only_L == Keep(L, Chans \ Range(common))
            only_R == Keep(R, Chans \ Range(common))
        IN  /\ r.ch = only_L \o common \o only_R
            /\ NoDup(r.ch)
            /\ Range(r.ch) = Range(L) \cup Range(R)
            /\ hist.kind = "nv" => r.ch = L
            /\ hist.kind = "vn" => r.ch = R

\* a Dual-with-Dual result whose three groups are all non-empty, the common
\* index standing before an only-left index in L
C1_Witness ==
    /\ hist.kind = "nn"
    /\ hist.a.ch = <<0, 2>>
    /\ hist.b.ch = <<0, 1>>
    /\ r.ch = <<2, 0, 1>>

\* C2: the rule that gives the derivative of a result channel c depends only
\* on which operands track c: both -> the two-Duo rule, left only (or a
\* scalar on the right) -> the (duo, T) rule, right only -> the (T, duo) rule.
C2_RulePerChannel ==
    IsBinary =>
        \A c \in Range(r.ch) :
            LET inL == hist.kind # "vn" /\ c \in Range(hist.a.ch)
                inR == hist.kind # "nv" /\ c \in Range(hist.b.ch)
                op == hist.op
            IN  dvalue(r, c) =
                    CASE inL /\ inR ->
                            (CASE op = "plus" -> plus_dvalue_nn(make_duo(c, hist.a), make_duo(c, hist.b))
                               [] op = "minus" -> minus_dvalue_nn(make_duo(c, hist.a), make_duo(c, hist.b))
                               [] op = "multiplies" -> multiplies_dvalue_nn(make_duo(c, hist.a), make_duo(c, hist.b))
                               [] op = "divides" -> divides_dvalue_nn(make_duo(c, hist.a), make_duo(c, hist.b)))
                      [] inL /\ ~inR ->
                            (CASE op = "plus" -> plus_dvalue_nv(make_duo(c, hist.a), RightValue)
                               [] op = "minus" -> minus_dvalue_nv(make_duo(c, hist.a), RightValue)
                               [] op = "multiplies" -> multiplies_dvalue_nv(make_duo(c, hist.a), RightValue)
                               [] op = "divides" -> divides_dvalue_nv(make_duo(c, hist.a), RightValue))
                      [] inR /\ ~inL ->
                            (CASE op = "plus" -> plus_dvalue_vn(LeftValue, make_duo(c, hist.b))
                               [] op = "minus" -> minus_dvalue_vn(LeftValue, make_duo(c, hist.b))
                               [] op = "multiplies" -> multiplies_dvalue_vn(LeftValue, make_duo(c, hist.b))
                               [] op = "divides" -> divides_dvalue_vn(LeftValue, make_duo(c, hist.b)))

\* a product of two Duals that share one index and have one index each of
\* their own, at non-zero values: the three rules give three different results
C2_Witness ==
    /\ hist.kind = "nn" /\ hist.op = "multiplies"
    /\ hist.a.ch = <<0, 1>> /\ hist.b.ch = <<1, 2>>
    /\ hist.a.v = Int2T(-1) /\ hist.b.v = One
    /\ dvalue(r, 0) = One /\ dvalue(r, 1) = Zero /\ dvalue(r, 2) = Int2T(-1)

\* C3: in every call shape the value of the result is the strategy's value
\* function of the operands' raw values, and it is the same for operands
\* that have these values but other packs or other derivatives.
AltNumbers(v) ==
    {[v |-> v, ch |-> q, dv |-> [i \in 1..Len(q) |-> d]] :
        q \in {<<>>, <<2>>, <<1, 0>>}, d \in {Zero, Int2T(-1)}}

C3_ValueDecoupled ==
    /\ hist.kind = "unary" =>
        /\ r.v = (CASE hist.op = "negate" -> negate_value(hist.a.v)
                    [] hist.op = "log" -> log_value(hist.a.v))
        /\ \A a \in AltNumbers(hist.a.v) : unary_operation(hist.op, a).v = r.v
    /\ IsBinary =>
        r.v = (CASE hist.op = "plus" -> plus_value(LeftValue, RightValue)
                 [] hist.op = "minus" -> minus_value(LeftValue, RightValue)
                 [] hist.op = "multiplies" -> multiplies_value(LeftValue, RightValue)
                 [] hist.op = "divides" -> divides_value(LeftValue, RightValue))
    /\ hist.kind = "nv" =>
        \A a \in AltNumbers(hist.a.v) : binary_operation_nv(hist.op, a, hist.s).v = r.v
    /\ hist.kind = "vn" =>
        \A b \in AltNumbers(hist.b.v) : binary_operation_vn(hist.op, hist.s, b).v = r.v
    /\ hist.kind = "nn" =>
        /\ \A a \in AltNumbers(hist.a.v) : binary_operation_nn(hist.op, a, hist.b).v = r.v
        /\ \A b \in AltNumbers(hist.b.v) : binary_operation_nn(hist.op, hist.a, b).v = r.v

\* a difference of two Duals with different values and an overwritten
\* derivative
C3_Witness ==
    /\ hist.kind = "nn" /\ hist.op = "minus"
    /\ hist.a.v = One /\ hist.b.v = Int2T(-1)
    /\ Dirty(hist.a) = 1
    /\ r.v = Two

\* C4: a unary operator returns a result with the pack of its operand, and
\* on every index c the derivative is the strategy's dvalue of the duo
\* {x.value, x.derivative(c)}.
C4_Unary ==
    hist.kind = "unary" =>
        /\ r.ch = hist.a.ch
        /\ \A c \in Range(hist.a.ch) :
            LET n == [v |-> hist.a.v, d |-> dvalue(hist.a, c)]
            IN  dvalue(r, c) = (CASE hist.op = "negate" -> negate_dvalue(n)
                                  [] hist.op = "log" -> log_dvalue(n))

\* the negation of a Dual with two indices whose derivatives differ
C4_Witness ==
    /\ hist.kind = "unary" /\ hist.op = "negate"
    /\ hist.a.ch = <<0, 1>>
    /\ dvalue(hist.a, 0) = One /\ dvalue(hist.a, 1) = Int2T(-1)
    /\ dvalue(r, 0) = Int2T(-1) /\ dvalue(r, 1) = One

\* C5: a Dual created directly (from a raw scalar, or default-constructed)
\* has derivative 1 on every declared index; so x + x for a fresh x with
\* value v has value 2v and derivative 2 on every index of x.
C5_Seed ==
    /\ hist.kind = "construct" =>
        /\ Post.v = hist.s
        /\ \A c \in Range(Post.ch) : dvalue(Post, c) = One
    /\ hist.kind = "default" =>
        /\ Post.v = Zero
        /\ \A c \in Range(Post.ch) : dvalue(Post, c) = One
    /\ (hist.kind = "nn" /\ hist.op = "plus" /\ hist.a = hist.b /\ Fresh(hist.a)) =>
        /\ r.v = TMul(Two, hist.a.v)
        /\ \A c \in Range(r.ch) : dvalue(r, c) = Two

\* x + x for x constructed at 1 on index 0
C5_Witness ==
    /\ hist.kind = "nn" /\ hist.op = "plus"
    /\ hist.a = number_init(One, <<0>>) /\ hist.b = hist.a
    /\ r.v = Two /\ dvalue(r, 0) = Two

\* C6: every Dual holds exactly one derivative slot per declared index, no
\* index is declared twice, and no statement changes the pack of an
\* existing Dual: not of the variable it is called on, not of an operand.
WellFormed(n) == DOMAIN n.dv = 1..Len(n.ch) /\ NoDup(n.ch)

C6_Slots ==
    /\ WellFormed(x) /\ WellFormed(y) /\ WellFormed(r)
    /\ hist.kind \in {"construct", "default", "set_value", "set_dvalue"} =>
        Post.ch = Pre.ch
    /\ hist.kind \in {"nn", "nv", "unary"} =>
        \E nm \in {"x", "y"} : Reg(nm) = hist.a
    /\ hist.kind \in {"nn", "vn"} =>
        \E nm \in {"x", "y"} : Reg(nm) = hist.b

C6_SlotsAndPacks == []C6_Slots /\ [][x'.ch = x.ch /\ y'.ch = y.ch]_vars

\* a three-index result computed from an operand with an overwritten slot
C6_Witness ==
    /\ hist.kind = "nn" /\ Len(r.ch) = 3
    /\ Dirty(x) = 1 /\ x.v # Zero

\* C7: value(v) changes only the scalar, derivative(c, d) changes only the
\* slot of c, and the value written is the value read back.
C7_SetterFrame ==
    /\ hist.kind = "set_value" =>
        /\ value(Post) = hist.s
        /\ Post.ch = Pre.ch
        /\ \A c \in Range(Pre.ch) : dvalue(Post, c) = dvalue(Pre, c)
    /\ hist.kind = "set_dvalue" =>
        /\ dvalue(Post, hist.D) = hist.s
        /\ value(Post) = value(Pre)
        /\ Post.ch = Pre.ch
        /\ \A c \in Range(Pre.ch) \ {hist.D} : dvalue(Post, c) = dvalue(Pre, c)

\* the second slot of a two-index Dual with a non-zero value is overwritten
C7_Witness ==
    /\ hist.kind = "set_dvalue" /\ hist.D = 1
    /\ Pre.ch = <<0, 1>> /\ Pre.v = Int2T(-1)
    /\ hist.s = Zero
    /\ Post.dv = <<One, Zero>>

C10_DivideByScalar ==
    (hist.kind = "nv" /\ hist.op = "divides") =>
        \A c \in Range(r.ch) : dvalue(r, c) = TDiv(dvalue(hist.a, c), hist.s)

\* C8: for an expression built from +, binary -, * and unary minus over
\* fresh leaves with disjoint packs and plain scalars, the value is the
\* expression evaluated on the raw values and the derivative on each index
\* of a leaf is the partial derivative of the polynomial in that leaf.
C8_Polynomial ==
    rp.ok =>
        LET xv == IntOf(x.v)
            yv == IntOf(y.v)
        IN  /\ TEqInt(r.v, PEval(rp.p, xv, yv))
            /\ \A nm \in rp.lv : Range(Reg(nm).ch) \subseteq Range(r.ch)
            /\ \A c \in Range(r.ch) :
                /\ c \in Range(x.ch) => TEqInt(dvalue(r, c), PEval(PDiffX(rp.p), xv, yv))
                /\ c \in Range(y.ch) => TEqInt(dvalue(r, c), PEval(PDiffY(rp.p), xv, yv))
                /\ c \in Range(x.ch) \cup Range(y.ch)

\* (x * y) * x at x = -1, y = 1: value 1, d/dx = 2xy = -2, d/dy = x^2 = 1
C8_Witness ==
    /\ depth = 2 /\ rp.ok
    /\ rp.p = PMul(PMul(PVarX, PVarY), PVarX)
    /\ x = number_init(Int2T(-1), <<0>>) /\ y = number_init(One, <<1>>)
    /\ r.v = One /\ dvalue(r, 0) = Int2T(-2) /\ dvalue(r, 1) = One

\* a == b of C++ on T: false for NaN, true for the two zeros
TEq(a, b) == ~IsNaN(a) /\ ~IsNaN(b) /\ (a = b \/ (IsZero(a) /\ IsZero(b)))

\* C11: for Duals a and b with any packs, a + b and b + a (and a * b and
\* b * a) have the same value, the same set of indices and the same
\* derivative on every index, whatever the order of the slots.
C11_Commutative ==
    (hist.kind = "nn" /\ hist.op \in {"plus", "multiplies"}) =>
        LET s == binary_operation_nn(hist.op, hist.b, hist.a)
        IN  /\ s.v = r.v
            /\ Range(s.ch) = Range(r.ch)
            /\ Len(s.ch) = Len(r.ch)
            /\ \A c \in Range(r.ch) : dvalue(s, c) = dvalue(r, c)

\* a product of partially overlapping Duals with different values: the two
\* orders of the operands store the same derivatives in reversed slot order
C11_Witness ==
    /\ hist.kind = "nn" /\ hist.op = "multiplies"
    /\ hist.a.ch = <<0, 1>> /\ hist.b.ch = <<1, 2>>
    /\ hist.a.v = Int2T(-1) /\ hist.b.v = One
    /\ r.ch = <<0, 1, 2>>
    /\ binary_operation_nn("multiplies", hist.b, hist.a).ch = <<2, 1, 0>>
    /\ r.dv = <<One, Zero, Int2T(-1)>>

\* C18: add, subtract, multiply and negate give the tabulated value and
\* derivative in every call shape: a+b with da+db, db, da; a-b with da-db,
\* -db, da; a*b with a*db+b*da, v*db, v*da; -a with -da.
C18_Table ==
    /\ (hist.kind = "unary" /\ hist.op = "negate") =>
        /\ r.v = TNeg(hist.a.v)
        /\ \A c \in Range(r.ch) : dvalue(r, c) = TNeg(dvalue(hist.a, c))
    /\ (IsBinary /\ hist.op \in {"plus", "minus", "multiplies"}) =>
        LET a == LeftValue
            b == RightValue
            op == hist.op
        IN  /\ r.v = (CASE op = "plus" -> TAdd(a, b)
                        [] op = "minus" -> TSub(a, b)
                        [] op = "multiplies" -> TMul(a, b))
            /\ \A c \in Range(r.ch) :
                LET inL == hist.kind # "vn" /\ c \in Range(hist.a.ch)
                    inR == hist.kind # "nv" /\ c \in Range(hist.b.ch)
                    da == dvalue(hist.a, c)
                    db == dvalue(hist.b, c)
                IN  dvalue(r, c) =
                        CASE inL /\ inR ->
                                (CASE op = "plus" -> TAdd(da, db)
                                   [] op = "minus" -> TSub(da, db)
                                   [] op = "multiplies" -> TAdd(TMul(a, db), TMul(b, da)))
                          [] inL /\ ~inR ->
                                (CASE op = "plus" -> da
                                   [] op = "minus" -> da
                                   [] op = "multiplies" -> TMul(b, da))
                          [] inR /\ ~inL ->
                                (CASE op = "plus" -> db
                                   [] op = "minus" -> TNeg(db)
                                   [] op = "multiplies" -> TMul(a, db))

\* a difference of Duals that share one index and have one of their own
\* each, the left derivative on the shared index overwritten
C18_Witness ==
    /\ hist.kind = "nn" /\ hist.op = "minus"
    /\ hist.a.ch = <<0, 1>> /\ hist.b.ch = <<1, 2>>
    /\ dvalue(hist.a, 1) = Int2T(-1)
    /\ r.dv = <<One, Int2T(-2), Int2T(-1)>>

\* C19: for a Dual and a plain scalar, the one-side-scalar rule of add,
\* subtract, multiply and divide (the divisor not zero) gives a derivative
\* equal to that of the two-Duo rule applied with the derivative 0 for the
\* plain scalar.
C19_ScalarAsZeroDerivative ==
    /\ hist.kind = "nv" =>
        \A c \in Range(r.ch) :
            LET n1 == make_duo(c, hist.a)
                n2 == [v |-> hist.s, d |-> Zero]
                op == hist.op
            IN  (op = "divides" => ~IsZero(hist.s)) =>
                    TEq(dvalue(r, c),
                        CASE op = "plus" -> plus_dvalue_nn(n1, n2)
                          [] op = "minus" -> minus_dvalue_nn(n1, n2)
                          [] op = "multiplies" -> multiplies_dvalue_nn(n1, n2)
                          [] op = "divides" -> divides_dvalue_nn(n1, n2))
    /\ hist.kind = "vn" =>
        \A c \in Range(r.ch) :
            LET n1 == [v |-> hist.s, d |-> Zero]
                n2 == make_duo(c, hist.b)
                op == hist.op
            IN  (op = "divides" => ~IsZero(hist.b.v)) =>
                    TEq(dvalue(r, c),
                        CASE op = "plus" -> plus_dvalue_nn(n1, n2)
                          [] op = "minus" -> minus_dvalue_nn(n1, n2)
                          [] op = "multiplies" -> multiplies_dvalue_nn(n1, n2)
                          [] op = "divides" -> divides_dvalue_nn(n1, n2))

\* 1 - x for x at -1 with two indices, one derivative overwritten with -1
C19_Witness ==
    /\ hist.kind = "vn" /\ hist.op = "minus"
    /\ hist.s = One /\ hist.b.v = Int2T(-1)
    /\ hist.b.ch = <<0, 1>> /\ hist.b.dv = <<One, Int2T(-1)>>
    /\ r.dv = <<Int2T(-1), One>>

\* C20: for the packs A and B of the operands of a binary operator, in
\* either order, intersection(A, B) is the subsequence of A of the elements
\* that occur in B and difference(A, B) the subsequence of A of those that
\* do not, both in A's order; an empty A gives the empty pack, an empty B
\* gives the empty intersection and the difference A.
C20_IndexAlgebra ==
    hist.kind = "nn" =>
        \A t \in {<<hist.a.ch, hist.b.ch>>, <<hist.b.ch, hist.a.ch>>} :
            LET A == t[1]
                B == t[2]
            IN  /\ indices_interception(A, B) = Keep(A, Range(B))
                /\ indices_difference(A, B) = Keep(A, Chans \ Range(B))
                /\ A = <<>> => /\ indices_interception(A, B) = <<>>
                               /\ indices_difference(A, B) = <<>>
                /\ B = <<>> => /\ indices_interception(A, B) = <<>>
                               /\ indices_difference(A, B) = A

\* the same two indices in opposite orders: the intersection follows A
C20_Witness ==
    /\ hist.kind = "nn"
    /\ hist.a.ch = <<1, 0>> /\ hist.b.ch = <<0, 1>>
    /\ indices_interception(hist.a.ch, hist.b.ch) = <<1, 0>>
    /\ indices_interception(hist.b.ch, hist.a.ch) = <<0, 1>>
    /\ indices_difference(hist.a.ch, <<0>>) = <<1>>

\* other Duals a position of a collection could hold: other values, other
\* packs, other derivatives
AltElems ==
    {[v |-> v, ch |-> q, dv |-> [i \in 1..Len(q) |-> d]] :
        v \in {Two, NaN}, q \in {<<>>, <<2>>, <<0, 1>>}, d \in {Zero, Int2T(-1)}}

\* the collection c with position j replaced by e
WithElem(c, j, e) == array([c.storage EXCEPT ![j] = e])

\* C12: a unary transform of a collection of arity N, and a binary transform
\* of two collections of arity N, give a collection of arity N whose
\* position i is the operator applied to position i of the operands
\* (value, pack and derivatives); replacing any other position of an operand
\* leaves position i of the result as it is.
C12_Elementwise ==
    /\ hist.kind = "transform_unary" =>
        LET N == array_size(hist.a) IN
        /\ is_array_v(cr)
        /\ array_size(cr) = N
        /\ \A i \in 1..N :
            /\ cr.storage[i] = unary_operation(hist.op, hist.a.storage[i])
            /\ \A j \in (1..N) \ {i}, e \in AltElems :
                transform_unary_operation(hist.op, WithElem(hist.a, j, e)).storage[i]
                    = cr.storage[i]
    /\ (hist.kind = "transform_binary" /\ array_size(hist.a) = array_size(hist.b)) =>
        LET N == array_size(hist.a) IN
        /\ is_array_v(cr)
        /\ array_size(cr) = N
        /\ \A i \in 1..N :
            /\ cr.storage[i] =
                    binary_operation_nn(hist.op, hist.a.storage[i], hist.b.storage[i])
            /\ \A j \in (1..N) \ {i}, e \in AltElems :
                /\ transform_binary_operation(hist.op, WithElem(hist.a, j, e), hist.b).storage[i]
                        = cr.storage[i]
                /\ transform_binary_operation(hist.op, hist.a, WithElem(hist.b, j, e)).storage[i]
                        = cr.storage[i]

\* [1 on <<0>>, -1 on <<1, 0>>] - [-1 on <<1, 0>>, 1 on <<0>>]: the two
\* positions merge their packs in different orders
C12_Witness ==
    /\ hist.kind = "transform_binary" /\ hist.op = "minus"
    /\ hist.a = array(<<number_init(One, <<0>>), number_init(Int2T(-1), <<1, 0>>)>>)
    /\ hist.b = array(<<number_init(Int2T(-1), <<1, 0>>), number_init(One, <<0>>)>>)
    /\ cr = array(<<[v |-> Two, ch |-> <<0, 1>>, dv |-> <<Zero, Int2T(-1)>>],
                    [v |-> Int2T(-2), ch |-> <<1, 0>>, dv |-> <<One, Zero>>]>>)

\* C13: a binary transform of two collections whose arities differ, the
\* left one longer or the right one longer, does not compile: it never
\* yields a result collection.
C13_EqualArityOnly ==
    (hist.kind = "transform_binary" /\ array_size(hist.a) # array_size(hist.b)) =>
        ~is_array_v(cr)

\* C14: a collection of arity N broadcast with one scalar-like operand s (a
\* plain scalar or a Dual) gives a collection of arity N whose position i is
\* op(collection[i], s) when the collection is the left operand and
\* op(s, collection[i]) when it is the right operand.
C14_Broadcast ==
    /\ hist.kind = "broadcast_cs" =>
        LET N == array_size(hist.a) IN
        /\ is_array_v(cr)
        /\ array_size(cr) = N
        /\ \A i \in 1..N :
            cr.storage[i] =
                IF is_number_v(hist.s)
                THEN binary_operation_nn(hist.op, hist.a.storage[i], hist.s)
                ELSE binary_operation_nv(hist.op, hist.a.storage[i], hist.s)
    /\ hist.kind = "broadcast_sc" =>
        LET N == array_size(hist.b) IN
        /\ is_array_v(cr)
        /\ array_size(cr) = N
        /\ \A i \in 1..N :
            cr.storage[i] =
                IF is_number_v(hist.s)
                THEN binary_operation_nn(hist.op, hist.s, hist.b.storage[i])
                ELSE binary_operation_vn(hist.op, hist.s, hist.b.storage[i])

\* [1 on <<0>>, 0 on <<1, 0>>] - (-1 on <<0, 2>>): the Dual is the
\* subtrahend at both positions
C14_Witness ==
    /\ hist.kind = "broadcast_cs" /\ hist.op = "minus"
    /\ hist.a = array(<<number_init(One, <<0>>), number_init(Zero, <<1, 0>>)>>)
    /\ hist.s = number_init(Int2T(-1), <<0, 2>>)
    /\ cr = array(<<[v |-> Two, ch |-> <<0, 2>>, dv |-> <<Zero, Int2T(-1)>>],
                    [v |-> One, ch |-> <<1, 0, 2>>, dv |-> <<One, Zero, Int2T(-1)>>]>>)
\* the derivative f'(v) of a unary operator of <cmath>, from calculus
Derivative(f, v) ==
    CASE f = "negate" -> Int2T(-1)
      [] f = "log" -> TDiv(One, v)
      [] f = "sin" -> TCos(v)
      [] f = "cos" -> TNeg(TSin(v))
      [] f = "exp" -> TExp(v)
      [] f = "sqrt" -> TDiv(One, TMul(Int2T(2), TSqrt(v)))
\* v is in the domain of f
InDomain(f, v) == f \in {"log", "sqrt"} => ~TLtZero(v)

\* the last statement of the expression and the one before it
Outer == trace[Len(trace)]
Inner == trace[Len(trace) - 1]
IsChain ==
    /\ Len(trace) >= 2
    /\ Outer.kind = "unary" /\ Inner.kind = "unary"
    /\ InDomain(Inner.op, Inner.a.v) /\ InDomain(Outer.op, Outer.a.v)
\* f'(g(a.value)) * g'(a.value) for r = f(g(a))
ChainFactor == TMul(Derivative(Outer.op, Outer.a.v), Derivative(Inner.op, Inner.a.v))
IsExpr(ops) ==
    /\ Len(trace) = Len(ops)
    /\ \A i \in 1..Len(ops) : trace[i].op = ops[i]
XByX == trace[1].kind = "nn" /\ trace[1].a = x /\ trace[1].b = x

\* C16: for unary f and g inside their domains, on every index c the
\* derivative of f(g(a)) is f'(g(a.value)) * g'(a.value) * a.derivative(c)
\* (where the product of the two factors is inside the algebra of T);
\* sin(log(x*x)) at x = 1 with the seed on index 0 has value 0 and
\* derivative 2, and log(x*x) at x = 2 has derivative 1.
C16_ChainRule ==
    /\ (IsChain /\ ~IsUnk(ChainFactor)) =>
        /\ r.ch = Inner.a.ch
        /\ \A c \in Range(r.ch) : dvalue(r, c) = TMul(ChainFactor, dvalue(Inner.a, c))
    /\ (IsExpr(<<"multiplies", "log", "sin">>) /\ XByX /\ x.v = One /\ dvalue(x, 0) = One) =>
        /\ r.v = Zero
        /\ dvalue(r, 0) = Int2T(2)
    /\ (IsExpr(<<"multiplies", "log">>) /\ XByX /\ x.v = Int2T(2) /\ dvalue(x, 0) = One) =>
        dvalue(r, 0) = One

\* sin(log(x*x)) at x = 1: a chain of two unary operators over x*x, whose
\* derivative on index 0 is 2
C16_Witness ==
    /\ IsExpr(<<"multiplies", "log", "sin">>) /\ XByX /\ IsChain
    /\ x.v = One /\ x.ch = <<0>>
    /\ dvalue(Inner.a, 0) = Int2T(2)
    /\ ChainFactor = One
    /\ r.v = Zero /\ dvalue(r, 0) = Int2T(2)
\* C17: for pow(x, n) with x on index 0 only and n on index 1 only the
\* value is pow(x, n), derivative(0) is n * pow(x, n - 1) * dx and
\* derivative(1) is dn * pow(x, n) * ln(x); at x = 3, n = 2 with seed
\* derivatives these are 9, 6 and 9 * ln(3).
C17_PowSplitChannels ==
    (hist.kind = "nn" /\ hist.op = "pow" /\ hist.a.ch = <<0>> /\ hist.b.ch = <<1>>) =>
        LET xv == hist.a.v
            nv == hist.b.v
            dx == dvalue(hist.a, 0)
            dn == dvalue(hist.b, 1)
        IN  /\ r.ch = <<0, 1>>
            /\ r.v = TPow(xv, nv)
            /\ dvalue(r, 0) = TMul(TMul(nv, TPow(xv, TSub(nv, One))), dx)
            /\ dvalue(r, 1) = TMul(TMul(dn, TPow(xv, nv)), TLog(xv))
            /\ (xv = Int2T(3) /\ nv = Int2T(2) /\ dx = One /\ dn = One) =>
                /\ r.v = Int2T(9)
                /\ dvalue(r, 0) = Int2T(6)
                /\ dvalue(r, 1) = MkSym(9, 1, "log", Int2T(3), Zero, 1, 1)

\* pow(x, n) at x = 3, n = 2
C17_Witness ==
    /\ hist.kind = "nn" /\ hist.op = "pow"
    /\ hist.a = number_init(Int2T(3), <<0>>) /\ hist.b = number_init(Int2T(2), <<1>>)
    /\ r.v = Int2T(9)
    /\ dvalue(r, 0) = Int2T(6)
    /\ dvalue(r, 1) = MkSym(9, 1, "log", Int2T(3), Zero, 1, 1)
NonFinite(a) == IsNaN(a) \/ IsInf(a)
\* the statements of the expression that cross an invalid domain
InvalidDomain ==
    {i \in 1..Len(trace) :
        /\ trace[i].kind = "unary" /\ trace[i].op \in {"log", "sqrt"}
        /\ TLtZero(trace[i].a.v)}
\* pow is applied after statement i
PowAfter(i) == \E j \in (i + 1)..Len(trace) : trace[j].op = "pow"

SetResult ==
    CASE hist.kind = "nn" -> binary_operation_set_nn(hist.op, hist.a, hist.b)
      [] hist.kind = "nv" -> binary_operation_set_nv(hist.op, hist.a, hist.s)
      [] hist.kind = "vn" -> binary_operation_set_vn(hist.op, hist.s, hist.b)

\* C21: the binary_operation with the pack only_1 ++ common ++ only_2 and
\* the one with the deduplicated concatenation (the indices of the left
\* operand, then those of the right operand the left one has not) give the
\* same value, the same set of indices without duplicates and the same
\* derivative on every index; only the order of the slots may differ.
C21_MergeEquivalent ==
    IsBinary =>
        /\ hist.kind = "nn" =>
            /\ SetResult.ch = indices_union(hist.a.ch, hist.b.ch)
            /\ SetResult.ch = hist.a.ch \o indices_difference(hist.b.ch, hist.a.ch)
        /\ SetResult.v = r.v
        /\ NoDup(SetResult.ch) /\ NoDup(r.ch)
        /\ Range(SetResult.ch) = Range(r.ch)
        /\ \A c \in Range(r.ch) : dvalue(SetResult, c) = dvalue(r, c)

\* (-1 on <<0, 1>>) * (1 on <<0, 2>>): the slots are <<1, 0, 2>> in one
\* result and <<0, 1, 2>> in the other
C21_Witness ==
    /\ hist.kind = "nn" /\ hist.op = "multiplies"
    /\ hist.a.ch = <<0, 1>> /\ hist.b.ch = <<0, 2>>
    /\ hist.a.v = Int2T(-1) /\ hist.b.v = One
    /\ r.ch = <<1, 0, 2>> /\ SetResult.ch = <<0, 1, 2>>
    /\ r.dv # SetResult.dv
    /\ \A c \in 0..2 : dvalue(SetResult, c) = dvalue(r, c)
\* C22: a collection built from a std::array of N raw values has these
\* values at the same positions and the seed 1 in every derivative slot;
\* to_array() gives them back, as N values of T without derivatives.
C22_RoundTrip ==
    /\ hist.kind = "construct_std" =>
        /\ array_size(ca) = Len(hist.s)
        /\ PacksOf(ca) = PacksOf(hist.a)
        /\ to_array(ca) = hist.s
        /\ \A i \in 1..array_size(ca) :
            /\ value(ca.storage[i]) = hist.s[i]
            /\ \A c \in Range(ca.storage[i].ch) : dvalue(ca.storage[i], c) = dvalue_type
    /\ hist.kind = "to_array" =>
        /\ Len(raw) = array_size(ca)
        /\ \A i \in 1..Len(raw) :
            /\ raw[i] = value(ca.storage[i])
            /\ ~is_number_v(raw[i])

\* a collection of two slots, rebuilt from <<-1, 1>> where a derivative had
\* been overwritten before
C22_Witness ==
    /\ hist.kind = "construct_std"
    /\ hist.s = <<Int2T(-1), One>>
    /\ DirtyArray(hist.a) = 1
    /\ DirtyArray(ca) = 0
    /\ to_array(ca) = <<Int2T(-1), One>>

\* C30: assigning a std::array of raw values to a collection writes the
\* value of every slot and nothing else: the packs and all derivatives,
\* those written through the setter included, stay as they were.
C30_AssignFrame ==
    hist.kind = "assign_std" =>
        /\ array_size(ca) = array_size(hist.a)
        /\ \A i \in 1..array_size(ca) :
            /\ ca.storage[i].v = hist.s[i]
            /\ ca.storage[i].ch = hist.a.storage[i].ch
            /\ ca.storage[i].dv = hist.a.storage[i].dv

\* <<-1, 1>> assigned to a collection whose second slot holds the
\* derivative 0 on index 0
C30_Witness ==
    /\ hist.kind = "assign_std"
    /\ hist.s = <<Int2T(-1), One>>
    /\ PacksOf(hist.a) = <<(<<0>>), (<<1, 0>>)>>
    /\ to_array(hist.a) = <<Zero, Zero>>
    /\ dvalue(hist.a.storage[2], 0) = Zero
    /\ to_array(ca) = <<Int2T(-1), One>>
    /\ dvalue(ca.storage[2], 0) = Zero /\ dvalue(ca.storage[2], 1) = One
C24_SameChannel ==
    (/\ hist.kind = "nn"
     /\ Fresh(hist.a) /\ Fresh(hist.b)
     /\ Len(hist.a.ch) = 1 /\ hist.a.ch = hist.b.ch) =>
        LET a == hist.a.v
            b == hist.b.v
            c == hist.a.ch[1]
        IN  /\ r.ch = <<c>>
            /\ hist.op = "multiplies" => dvalue(r, c) = TAdd(a, b)
            /\ hist.op = "plus" => dvalue(r, c) = Two
            /\ hist.op = "minus" => dvalue(r, c) = Zero
            /\ (hist.op = "divides" /\ ~IsZero(b)) =>
                /\ dvalue(r, c) = TDiv(TSub(b, a), TMul(b, b))
                /\ (a = b /\ IsFinite(a)) => dvalue(r, c) = Zero

\* 1 / -1 on index 0: the derivative is (-1 - 1) / 1 = -2
C24_Witness ==
    /\ hist.kind = "nn" /\ hist.op = "divides"
    /\ Fresh(hist.a) /\ Fresh(hist.b)
    /\ hist.a.ch = <<0>> /\ hist.b.ch = <<0>>
    /\ hist.a.v = One /\ hist.b.v = Int2T(-1)
    /\ dvalue(r, 0) = Int2T(-2)
\* C25: a Dual with a finite non-zero value divided by a Dual with the value
\* 0 on other indices is computed without an error: the value is +Inf or
\* -Inf and the derivative on every index of either operand is Inf or NaN,
\* never finite.
C25_DivideByZeroDual ==
    (/\ hist.kind = "nn" /\ hist.op = "divides"
     /\ IsFinite(hist.a.v) /\ ~IsZero(hist.a.v) /\ IsZero(hist.b.v)
     /\ hist.a.ch # <<>> /\ hist.b.ch # <<>>
     /\ Range(hist.a.ch) \cap Range(hist.b.ch) = {}) =>
        /\ is_number_v(r)
        /\ IsInf(r.v)
        /\ Range(r.ch) = Range(hist.a.ch) \cup Range(hist.b.ch)
        /\ \A c \in Range(r.ch) : IsInf(dvalue(r, c)) \/ IsNaN(dvalue(r, c))

\* 1 on index 0 divided by 0 on index 1: value +Inf, derivative NaN on
\* index 0 and -Inf on index 1
C25_Witness ==
    /\ hist.kind = "nn" /\ hist.op = "divides"
    /\ hist.a.v = One /\ hist.a.ch = <<0>> /\ Fresh(hist.a)
    /\ hist.b.v = Zero /\ hist.b.ch = <<1>> /\ Fresh(hist.b)
    /\ r.v = PosInf
    /\ IsNaN(dvalue(r, 0)) /\ dvalue(r, 1) = NegInf
\* C26 as amended: sqrt of a Dual with a negative value has the value NaN
\* and, std::sqrt being NaN there, the derivative NaN on every index; sqrt
\* at the value 0 has the value 0 and on every index an infinite derivative
\* where the input derivative is not zero, NaN where it is zero or NaN.
C26_SqrtDomain ==
    (hist.kind = "unary" /\ hist.op = "sqrt") =>
        LET a == hist.a.v IN
        /\ TLtZero(a) =>
            /\ IsNaN(sqrt_value(a))
            /\ IsNaN(r.v)
            /\ \A c \in Range(r.ch) : IsNaN(dvalue(r, c))
        /\ IsZero(a) =>
            /\ IsZero(r.v)
            /\ \A c \in Range(r.ch) :
                LET d == dvalue(hist.a, c) IN
                IF IsZero(d) \/ IsNaN(d) THEN IsNaN(dvalue(r, c))
                ELSE IsInf(dvalue(r, c))

\* sqrt of a Dual at 0 with the derivatives 1 and -1: value 0, derivatives
\* +Inf and -Inf
C26_Witness ==
    /\ hist.kind = "unary" /\ hist.op = "sqrt"
    /\ hist.a.v = Zero /\ hist.a.ch = <<0, 1>>
    /\ dvalue(hist.a, 0) = One /\ dvalue(hist.a, 1) = Int2T(-1)
    /\ r.v = Zero
    /\ dvalue(r, 0) = PosInf /\ dvalue(r, 1) = NegInf

\* C26 as stated: NaN value and derivatives for a negative value; value 0
\* and an infinite derivative at the value 0.
C26_Original ==
    (hist.kind = "unary" /\ hist.op = "sqrt") =>
        /\ TLtZero(hist.a.v) =>
            /\ IsNaN(r.v)
            /\ \A c \in Range(r.ch) : IsNaN(dvalue(r, c))
        /\ IsZero(hist.a.v) =>
            /\ IsZero(r.v)
            /\ \A c \in Range(r.ch) : IsInf(dvalue(r, c))
\* C27: in the Dual-with-Dual call the groups only_1, common and only_2 are
\* pairwise disjoint and make up the pack of the result; the three
\* update_dvalues calls write every slot of the result exactly once, each
\* index belonging to one group, so the result is the same whatever the
\* slots held before and no slot keeps an unwritten seed.
C27_WrittenOnce ==
    hist.kind = "nn" =>
        LET indices == binary_operation_indices(hist.a.ch, hist.b.ch)
            writes == indices.only_1 \o indices.only_2 \o indices.common
            blank == [v |-> r.v, ch |-> indices.result,
                      dv |-> [i \in 1..Len(indices.result) |-> Unk]]
            w1 == binary_update_dvalues(hist.op, indices.only_1, hist.a, hist.b.v, blank)
            w2 == binary_update_dvalues(hist.op, indices.only_2, hist.a.v, hist.b, w1)
            w3 == binary_update_dvalues(hist.op, indices.common, hist.a, hist.b, w2)
        IN  /\ Range(indices.only_1) \cap Range(indices.common) = {}
            /\ Range(indices.only_2) \cap Range(indices.common) = {}
            /\ Range(indices.only_1) \cap Range(indices.only_2) = {}
            /\ Range(writes) = Range(r.ch)
            /\ \A c \in Range(r.ch) :
                Cardinality({k \in 1..Len(writes) : writes[k] = c}) = 1
            /\ \A i \in 1..Len(r.ch) : ~IsUnk(r.dv[i])
            /\ w3 = r

\* a product with three non-empty groups in which no derivative written
\* equals the seed
C27_Witness ==
    /\ hist.kind = "nn" /\ hist.op = "multiplies"
    /\ hist.a.ch = <<0, 1>> /\ hist.b.ch = <<1, 2>>
    /\ hist.a.v = Int2T(-1) /\ hist.b.v = Int2T(-1)
    /\ Fresh(hist.a) /\ Fresh(hist.b)
    /\ r.ch = <<0, 1, 2>>
    /\ r.dv = <<Int2T(-1), Int2T(-2), Int2T(-1)>>
\* the derivatives a second run writes into one slot of an operand
OtherDerivatives == {Zero, Int2T(-1), Two}
\* the result of the statement last executed, run on the operands a and b
Rerun(a, b) ==
    CASE hist.kind = "unary" -> unary_operation(hist.op, a)
      [] hist.kind = "nn" -> binary_operation_nn(hist.op, a, b)
      [] hist.kind = "nv" -> binary_operation_nv(hist.op, a, hist.s)
      [] hist.kind = "vn" -> binary_operation_vn(hist.op, hist.s, b)
\* s has the value, the pack and, except on the index D, the derivatives of r
SameButOn(s, D) ==
    /\ s.v = r.v
    /\ s.ch = r.ch
    /\ \A c \in Range(r.ch) \ {D} : dvalue(s, c) = dvalue(r, c)

\* C28: for every unary and binary operator in every call shape, a second
\* run that differs only in one operand's derivative on an index D gives
\* the same value and the same derivative on every index other than D.
C28_NoInterference ==
    IsOp =>
        /\ hist.kind # "vn" =>
            \A D \in Range(hist.a.ch), d \in OtherDerivatives :
                SameButOn(Rerun(set_dvalue(hist.a, D, d), hist.b), D)
        /\ hist.kind \in {"nn", "vn"} =>
            \A D \in Range(hist.b.ch), d \in OtherDerivatives :
                SameButOn(Rerun(hist.a, set_dvalue(hist.b, D, d)), D)

\* a product of a Dual on indices 0 and 1 and a Dual on index 1: with the
\* left derivative on index 1 set to 0 the result differs, but only on
\* index 1
C28_Witness ==
    /\ hist.kind = "nn" /\ hist.op = "multiplies"
    /\ hist.a.ch = <<0, 1>> /\ hist.b.ch = <<1>>
    /\ hist.a.v = One /\ hist.b.v = Int2T(2)
    /\ dvalue(r, 0) = Int2T(2)
    /\ Rerun(set_dvalue(hist.a, 1, Zero), hist.b) # r
    /\ dvalue(Rerun(set_dvalue(hist.a, 1, Zero), hist.b), 0) = Int2T(2)
\* the Dual operands of the statements of the expression that are leaves:
\* both operands of the first statement, and the operand that is not the
\* result so far of every later one
LeafOperands ==
    {trace[1].a, trace[1].b} \cup
    {IF trace[i].a = y THEN trace[i].a ELSE trace[i].b :
        i \in {j \in 2..Len(trace) : trace[j].kind = "nn"}}
LeafChannels == UNION {Range(n.ch) : n \in LeafOperands}

\* C29: the pack of the result of an expression built from unary and binary
\* operators in any call shape has no duplicate and is, as a set, the union
\* of the packs of the Dual leaves of the expression.
C29_LeafUnion ==
    trace # <<>> =>
        /\ hist = trace[Len(trace)]
        /\ NoDup(r.ch)
        /\ Range(r.ch) = LeafChannels

\* three statements, the leaf y on index 1 joining the leaf x on index 0 in
\* the second one, between two unary operators
C29_Witness ==
    /\ Len(trace) = 3
    /\ trace[1].kind = "unary" /\ trace[1].a.ch = <<0>>
    /\ trace[2].kind = "nn" /\ trace[2].a = y /\ y.ch = <<1>>
    /\ trace[3].kind = "unary"
    /\ LeafChannels = {0, 1}
    /\ r.ch = <<1, 0>>
====
